---------------------------- MODULE Spec2Model ----------------------------
(***************************************************************************)
(* Model of the task engine of the Telegram task bot (src/unnamed/part_001): *)
(* the sheet-backed task store, the add / complete / update / delete /     *)
(* reconcile operations and the single-slot undo ledger.                   *)
(*                                                                         *)
(* Strings are TLA+ strings; an absent (undefined / null) JavaScript       *)
(* string argument is modelled by "" wherever the code only tests its      *)
(* truthiness, and a null RETURN value by the sentinel Null.               *)
(***************************************************************************)
EXTENDS Integers, Sequences, FiniteSets, TLC

\* ------------------------------------------------------------------ bounds

\* Highest sheet row the model writes (row 1 is the header, tasks start at 2).
MaxRow == 5

\* Highest sheet row written in the specifications of the undo ledger and of
\* the assignment policy.
MaxSmallRow == 4

\* How many milliseconds past the undo window the model clock may run.
MaxExtra == 1

\* Highest sheet row written in the specification of concurrent requests.
MaxConcRow == 3

\* ------------------------------------------------------- string primitives

\* The null return value of normalizePerson / completeTask / deleteTask.
Null == "<null>"

UpperLetters == "ABCDEFGHIJKLMNOPQRSTUVWXYZ"

LowerLetters == "abcdefghijklmnopqrstuvwxyz"

CharAt(s, i) == SubSeq(s, i, i)

\* The lower-case letter of each upper-case letter.
LowerOf ==
  [c \in {CharAt(UpperLetters, i) : i \in 1..26} |->
     CharAt(LowerLetters, CHOOSE i \in 1..26 : CharAt(UpperLetters, i) = c)]

\* String.prototype.toLowerCase on one character.
LowerChar(c) == IF c \in DOMAIN LowerOf THEN LowerOf[c] ELSE c

RECURSIVE ToLowerCase(_)
\* String.prototype.toLowerCase.
ToLowerCase(s) ==
  IF s = "" THEN "" ELSE LowerChar(CharAt(s, 1)) \o ToLowerCase(SubSeq(s, 2, Len(s)))

RECURSIVE TrimStart(_)
TrimStart(s) ==
  IF s # "" /\ CharAt(s, 1) = " " THEN TrimStart(SubSeq(s, 2, Len(s))) ELSE s

RECURSIVE TrimEnd(_)
TrimEnd(s) ==
  IF s # "" /\ CharAt(s, Len(s)) = " " THEN TrimEnd(SubSeq(s, 1, Len(s) - 1)) ELSE s

\* String.prototype.trim (the only white space of the model is the blank).
Trim(s) == TrimEnd(TrimStart(s))

\* String.prototype.includes.
Includes(s, sub) ==
  \E i \in 0..(Len(s) - Len(sub)) : SubSeq(s, i + 1, i + Len(sub)) = sub

RECURSIVE ReplaceFirstFrom(_, _, _)
\* String.prototype.replace(sub, '') with a string pattern: the first
\* occurrence of sub from position i on is removed.
ReplaceFirstFrom(s, i, sub) ==
  IF i > Len(s) THEN ""
  ELSE IF i + Len(sub) - 1 <= Len(s) /\ SubSeq(s, i, i + Len(sub) - 1) = sub
    THEN SubSeq(s, i + Len(sub), Len(s))
    ELSE CharAt(s, i) \o ReplaceFirstFrom(s, i + 1, sub)

\* ------------------------------------------------------ person attribution

SHARED_TASK_INDICATORS == {"both", "beide", "zusammen", "gemeinsam", "wir"}

SHARED_PERSON_VALUE == "Beide"

\* nameMap of normalizePerson: known names and the first-person pronouns.
NameMap(lower) ==
  CASE lower = "moana" -> "Moana"
    [] lower = "jeremy" -> "Jeremy"
    [] lower \in {"ich", "meine", "mir", "mich"} -> Null

NameMapKeys == {"moana", "jeremy", "ich", "meine", "mir", "mich"}

normalizePerson(person) ==
  IF person = "" THEN SHARED_PERSON_VALUE
  ELSE LET lower == Trim(ToLowerCase(person)) IN
       IF lower \in SHARED_TASK_INDICATORS THEN SHARED_PERSON_VALUE
       ELSE IF lower \in NameMapKeys THEN NameMap(lower)
       ELSE person

\* ------------------------------------------------------------------ dates

\* The calendar days of the model, counted from 2024-01-01 (a Monday).
Days == 0..13

ISODate(d) ==
  "2024-01-" \o (IF d + 1 < 10 THEN "0" ELSE "1") \o CharAt("0123456789", ((d + 1) % 10) + 1)

\* Date.prototype.getDay of model day d: 0 = Sunday .. 6 = Saturday.
GetDay(d) == (d + 1) % 7

\* (mutant) getNextWeekday without the `|| 7` of daysUntil.
getNextWeekdayOrToday(dayOfWeek, today) == today + ((dayOfWeek - GetDay(today) + 7) % 7)

getNextWeekday(dayOfWeek, today) ==
  LET m == (dayOfWeek - GetDay(today) + 7) % 7
      daysUntil == IF m = 0 THEN 7 ELSE m
  IN  today + daysUntil

DayMapKeys ==
  {"heute", "today", "morgen", "tomorrow", "montag", "dienstag", "mittwoch",
   "donnerstag", "freitag", "samstag", "sonntag"}

DayMap(lower, today) ==
  CASE lower \in {"heute", "today"} -> today
    [] lower \in {"morgen", "tomorrow"} -> today + 1
    [] lower = "montag" -> getNextWeekday(1, today)
    [] lower = "dienstag" -> getNextWeekday(2, today)
    [] lower = "mittwoch" -> getNextWeekday(3, today)
    [] lower = "donnerstag" -> getNextWeekday(4, today)
    [] lower = "freitag" -> getNextWeekday(5, today)
    [] lower = "samstag" -> getNextWeekday(6, today)
    [] lower = "sonntag" -> getNextWeekday(0, today)

\* new Date(str) succeeds, in the model, exactly on the ISO dates of Days.
IsValidDate(s) == \E d \in Days : ISODate(d) = s

parseDate(dateStr, today) ==
  IF dateStr = "" THEN ""
  ELSE LET lower == Trim(ToLowerCase(dateStr)) IN
       IF lower \in DayMapKeys THEN ISODate(DayMap(lower, today))
       ELSE IF IsValidDate(dateStr) THEN dateStr
       ELSE dateStr

\* The day on which the model runs (new Date() inside the operations).
Today == 0

\* ------------------------------------------------------------------ store

Rows == 2..MaxRow

\* A cleared (or never written) sheet row: every cell empty.
BlankRow ==
  [date |-> "", person |-> "", task |-> "", location |-> "", when |-> "",
   category |-> "", status |-> ""]

\* A string cell read back: row[i] || dflt.
OrElse(v, dflt) == IF v = "" THEN dflt ELSE v

RECURSIVE LastUsedRow(_, _)
\* values.get returns the rows up to the last one that holds a value.
LastUsedRow(sh, r) ==
  IF r < 2 THEN 1 ELSE IF sh[r] # BlankRow THEN r ELSE LastUsedRow(sh, r - 1)


\* One task object of getAllTasks for sheet row r (index + 2), with its defaults.
TaskOfRow(sh, r) ==
  [row |-> r,
   date |-> sh[r].date,
   person |-> sh[r].person,
   task |-> sh[r].task,
   location |-> sh[r].location,
   when |-> sh[r].when,
   category |-> OrElse(sh[r].category, "general"),
   status |-> OrElse(sh[r].status, "pending")]

\* (mutant) getAllTasks without its filter: every returned row becomes a task.
HasTaskTextUnfiltered(t) == TRUE

\* The row filter of getAllTasks: column C holds a task text.
HasTaskText(t) == Trim(t.task) # ""

\* getAllTasks on a successful read: the task rows in row order.
getAllTasks(sh) ==
  LET n == LastUsedRow(sh, MaxRow) - 1
      all == [i \in 1..n |-> TaskOfRow(sh, i + 1)]
  IN  SelectSeq(all, HasTaskText)

\* values.update of the range A<first>:G<first + n - 1>.
UpdateRange(sh, first, rows) ==
  [r \in Rows |->
     IF r >= first /\ r < first + Len(rows) THEN rows[r - first + 1] ELSE sh[r]]

\* values.update of the single cell G<r>.
UpdateStatusCell(sh, r, v) == [sh EXCEPT ![r].status = v]

\* values.clear of the range A<r>:G<r>.
ClearRow(sh, r) == [sh EXCEPT ![r] = BlankRow]

RECURSIVE ClearRows(_, _)
\* values.clear for each row of a list, in list order.
ClearRows(sh, rs) ==
  IF rs = <<>> THEN sh ELSE ClearRows(ClearRow(sh, Head(rs)), Tail(rs))

\* ------------------------------------------------------------- undo ledger

\* lastAction = null.
NoAction == [type |-> "none", tasks |-> <<>>, task |-> "", timestamp |-> 0]

AddAction(texts, t) == [type |-> "add", tasks |-> texts, task |-> "", timestamp |-> t]

CompleteAction(text, t) == [type |-> "complete", tasks |-> <<>>, task |-> text, timestamp |-> t]

DeleteAction(text, t) == [type |-> "delete", tasks |-> <<>>, task |-> text, timestamp |-> t]

\* The undo window in milliseconds: 5 * 60 * 1000.
UndoWindow == 5 * 60 * 1000

\* ------------------------------------------------------------------ addTasks

\* A validation that only looks for an absent text.
HasTaskField(task) == task.task # ""

\* The validation of addTasks: a candidate without task text is skipped.
IsValidCandidate(task) == task.task # "" /\ Trim(task.task) # ""

\* The assignee addTasks gives a candidate.
AssignedPerson(task, userName) ==
  IF task.assignedTo # ""
    THEN LET normalized == normalizePerson(task.assignedTo) IN
         IF normalized # Null /\ normalized # "" /\ normalized # SHARED_PERSON_VALUE
           THEN (IF normalized = Null THEN userName ELSE normalized)
           ELSE SHARED_PERSON_VALUE
    ELSE SHARED_PERSON_VALUE

\* The duplicate check of addTasks against the snapshot it read.
ExistsActive(existingTasks, task, assignedPerson) ==
  \E i \in 1..Len(existingTasks) :
     /\ ToLowerCase(existingTasks[i].task) = ToLowerCase(task.task)
     /\ existingTasks[i].person = assignedPerson
     /\ existingTasks[i].status # "done"

\* The category of a candidate without the promotion of shared tasks.
AddCategoryUnpromoted(task, assignedPerson) == OrElse(task.category, "general")

\* The category addTasks stores.
AddCategory(task, assignedPerson) ==
  LET category == OrElse(task.category, "general") IN
  IF assignedPerson = SHARED_PERSON_VALUE /\ (category = "general" \/ category = "")
    THEN "both" ELSE category

\* The sheet row addTasks builds for a candidate.
NewTaskRow(task, userName, today) ==
  LET assignedPerson == AssignedPerson(task, userName) IN
  [date |-> ISODate(today),
   person |-> assignedPerson,
   task |-> Trim(task.task),
   location |-> task.location,
   when |-> parseDate(task.when, today),
   category |-> AddCategory(task, assignedPerson),
   status |-> "pending"]

\* Whether the loop of addTasks keeps a candidate.
IsAdded(existingTasks, task, userName) ==
  /\ IsValidCandidate(task)
  /\ ~ExistsActive(existingTasks, task, AssignedPerson(task, userName))

RECURSIVE NewTasks(_, _, _, _)
\* newTasks: the rows of the candidates the loop keeps, in batch order.
NewTasks(tasks, existingTasks, userName, today) ==
  IF tasks = <<>> THEN <<>>
  ELSE (IF IsAdded(existingTasks, Head(tasks), userName)
          THEN <<NewTaskRow(Head(tasks), userName, today)>> ELSE <<>>)
       \o NewTasks(Tail(tasks), existingTasks, userName, today)

\* addedTaskInfo for one stored row.
AddedInfo(row) ==
  [task |-> row.task, person |-> row.person, isShared |-> row.person = SHARED_PERSON_VALUE]

RECURSIVE MaxTaskRow(_, _)
\* The highest row number among the tasks of a snapshot, at least lo.
MaxTaskRow(tasks, lo) ==
  IF tasks = <<>> THEN lo
  ELSE MaxTaskRow(Tail(tasks), IF Head(tasks).row > lo THEN Head(tasks).row ELSE lo)

\* The row addTasks writes first: one past the last row with data, counted from 2.
NextFreeRow(existingTasks) == MaxTaskRow(existingTasks, 2) + 1

\* addTasks from the snapshot existingTasks: the write and the return value.
AddTasksOp(sh, la, existingTasks, tasks, userName, t, today) ==
  LET newTasks == NewTasks(tasks, existingTasks, userName, today)
      info == [i \in 1..Len(newTasks) |-> AddedInfo(newTasks[i])]
  IN  IF Len(newTasks) > 0
        THEN [sheet |-> UpdateRange(sh, NextFreeRow(existingTasks), newTasks),
              lastAction |-> AddAction([i \in 1..Len(info) |-> info[i].task], t),
              ret |-> [count |-> Len(newTasks), addedInfo |-> info]]
        ELSE [sheet |-> sh, lastAction |-> la,
              ret |-> [count |-> 0, addedInfo |-> <<>>]]

\* --------------------------------------------- complete / update / delete

\* (mutant) the predicate of tasks.find without its status test.
MatchesAnyStatus(t, taskName) == Includes(ToLowerCase(t.task), ToLowerCase(taskName))

\* The predicate of tasks.find in completeTask, updateTask and deleteTask.
MatchesActive(t, taskName) ==
  Includes(ToLowerCase(t.task), ToLowerCase(taskName)) /\ t.status # "done"

\* A find that does not test the status: the index of the first task whose
\* text contains the name, or 0.
FindTaskOfAnyStatus(tasks, taskName) ==
  IF \E i \in 1..Len(tasks) : MatchesAnyStatus(tasks[i], taskName)
    THEN CHOOSE i \in 1..Len(tasks) :
           /\ MatchesAnyStatus(tasks[i], taskName)
           /\ \A j \in 1..(i - 1) : ~MatchesAnyStatus(tasks[j], taskName)
    ELSE 0

\* (mutant) a find that returns the last match instead of the first, or 0.
FindLastTask(tasks, taskName) ==
  IF \E i \in 1..Len(tasks) : MatchesActive(tasks[i], taskName)
    THEN CHOOSE i \in 1..Len(tasks) :
           /\ MatchesActive(tasks[i], taskName)
           /\ \A j \in (i + 1)..Len(tasks) : ~MatchesActive(tasks[j], taskName)
    ELSE 0

\* Array.prototype.find with that predicate: the index of the first match, or 0.
FindTask(tasks, taskName) ==
  IF \E i \in 1..Len(tasks) : MatchesActive(tasks[i], taskName)
    THEN CHOOSE i \in 1..Len(tasks) :
           /\ MatchesActive(tasks[i], taskName)
           /\ \A j \in 1..(i - 1) : ~MatchesActive(tasks[j], taskName)
    ELSE 0

CompleteTaskOp(sh, la, tasks, taskName, t) ==
  LET i == FindTask(tasks, taskName) IN
  IF i # 0
    THEN [sheet |-> UpdateStatusCell(sh, tasks[i].row, "done"),
          lastAction |-> CompleteAction(tasks[i].task, t),
          ret |-> tasks[i].task]
    ELSE [sheet |-> sh, lastAction |-> la, ret |-> Null]

DeleteTaskOp(sh, la, tasks, taskName, t) ==
  LET i == FindTask(tasks, taskName) IN
  IF i # 0
    THEN [sheet |-> ClearRow(sh, tasks[i].row),
          lastAction |-> DeleteAction(tasks[i].task, t),
          ret |-> tasks[i].task]
    ELSE [sheet |-> sh, lastAction |-> la, ret |-> Null]

\* The person updateTask stores: normalizePerson(updates.person) || updates.person.
UpdatedPerson(task, updates) ==
  IF updates.person # ""
    THEN LET n == normalizePerson(updates.person) IN
         IF n = Null \/ n = "" THEN updates.person ELSE n
    ELSE task.person

\* (mutant) a row built from the update alone: what the update does not supply
\* is written as empty.
OverwrittenRow(task, updates, today) ==
  [date |-> task.date,
   person |-> updates.person,
   task |-> updates.task,
   location |-> updates.location,
   when |-> parseDate(updates.when, today),
   category |-> updates.category,
   status |-> task.status]

\* updatedRow of updateTask, built from the task of the snapshot.
UpdatedRow(task, updates, today) ==
  [date |-> task.date,
   person |-> UpdatedPerson(task, updates),
   task |-> OrElse(updates.task, task.task),
   location |-> OrElse(updates.location, task.location),
   when |-> OrElse(parseDate(updates.when, today), task.when),
   category |-> OrElse(updates.category, task.category),
   status |-> task.status]

UpdateTaskOp(sh, la, tasks, taskName, updates, today) ==
  LET i == FindTask(tasks, taskName) IN
  IF i # 0
    THEN [sheet |-> UpdateRange(sh, tasks[i].row, <<UpdatedRow(tasks[i], updates, today)>>),
          lastAction |-> la, ret |-> TRUE]
    ELSE [sheet |-> sh, lastAction |-> la, ret |-> FALSE]

\* tasks.filter(t => t.status !== 'done').
ActiveTasks(tasks) == SelectSeq(tasks, LAMBDA t : t.status # "done")

RECURSIVE MarkDone(_, _)
MarkDone(sh, ts) ==
  IF ts = <<>> THEN sh ELSE MarkDone(UpdateStatusCell(sh, Head(ts).row, "done"), Tail(ts))

CompleteAllTasksOp(sh, la, tasks) ==
  LET activeTasks == ActiveTasks(tasks) IN
  [sheet |-> MarkDone(sh, activeTasks), lastAction |-> la, ret |-> Len(activeTasks)]

\* (mutant) the row list left in the order of the snapshot.
Unsorted(rs) == rs

RECURSIVE SortDescending(_)
\* Array.prototype.sort((a, b) => b - a) on row numbers.
SortDescending(rs) ==
  IF rs = <<>> THEN <<>>
  ELSE LET m == CHOOSE i \in 1..Len(rs) : \A j \in 1..Len(rs) : rs[j] <= rs[i]
       IN  <<rs[m]>> \o SortDescending(SubSeq(rs, 1, m - 1) \o SubSeq(rs, m + 1, Len(rs)))

DeleteAllTasksOp(sh, la, tasks) ==
  LET activeTasks == ActiveTasks(tasks)
      rows == SortDescending([i \in 1..Len(activeTasks) |-> activeTasks[i].row])
  IN  [sheet |-> ClearRows(sh, rows), lastAction |-> la, ret |-> Len(activeTasks),
       cleared |-> rows]

\* --------------------------------------------------------- removeDuplicates

\* The key removeDuplicates stores in its seen map.
DuplicateKey(task) ==
  Trim(ToLowerCase(task.task)) \o "_" \o task.person \o "_" \o task.location \o "_" \o task.when

RECURSIVE ScanDuplicates(_, _, _)
\* The forEach of removeDuplicates: the rows pushed to toDelete, in task order.
ScanDuplicates(tasks, seen, toDelete) ==
  IF tasks = <<>> THEN toDelete
  ELSE LET task == Head(tasks) IN
       IF task.status = "done" THEN ScanDuplicates(Tail(tasks), seen, toDelete)
       ELSE IF DuplicateKey(task) \in seen
              THEN ScanDuplicates(Tail(tasks), seen, Append(toDelete, task.row))
              ELSE ScanDuplicates(Tail(tasks), seen \cup {DuplicateKey(task)}, toDelete)

RemoveDuplicatesOp(sh, la, tasks) ==
  LET toDelete == SortDescending(ScanDuplicates(tasks, {}, <<>>)) IN
  [sheet |-> ClearRows(sh, toDelete), lastAction |-> la, ret |-> Len(toDelete)]

\* ------------------------------------------------------------ undoLastAction

MsgExpired == "Keine kuerzliche Aktion zum Rueckgaengigmachen gefunden (oder aelter als 5 Minuten)"

MsgDeleted == "kuerzlich hinzugefuegte Aufgabe(n) geloescht"

MsgNotFound == "Konnte die Aufgaben nicht finden"

MsgCompleteIrreversible == "Erledigte Aufgaben koennen nicht rueckgaengig gemacht werden"

MsgDeleteIrreversible == "Geloeschte Aufgaben koennen nicht wiederhergestellt werden"

MsgNoAction == "Keine Aktion zum Rueckgaengigmachen"

\* (mutant) the guard with the window's last millisecond counted as expired.
IsExpiredAtWindow(la, t) == la = NoAction \/ t - la.timestamp >= UndoWindow

\* The guard of undoLastAction: no record, or a record older than the window.
IsExpired(la, t) == la = NoAction \/ t - la.timestamp > UndoWindow

RECURSIVE UndoAddLoop(_, _, _, _, _)
\* The loop of case 'add': deleteTask for each recorded text, each on a fresh read.
UndoAddLoop(sh, la, names, deletedCount, t) ==
  IF names = <<>> THEN [sheet |-> sh, lastAction |-> la, deletedCount |-> deletedCount]
  ELSE LET d == DeleteTaskOp(sh, la, getAllTasks(sh), Head(names), t) IN
       UndoAddLoop(d.sheet, d.lastAction, Tail(names),
                   IF d.ret # Null THEN deletedCount + 1 ELSE deletedCount, t)

\* (mutant) case 'add' without its lastAction = null.
SlotKeptAfterUndoAdd(la) == la

\* What case 'add' leaves in the slot after its loop: lastAction = null.
SlotAfterUndoAdd(la) == NoAction

\* (mutant) the cases 'complete' and 'delete' clearing the slot like case 'add'.
SlotClearedAfterIrreversible(la) == NoAction

\* What the cases 'complete' and 'delete' leave in the slot: they only return.
SlotAfterIrreversible(la) == la

\* The reply of case 'add'.
UndoAddReply(deletedCount) ==
  IF deletedCount > 0
    THEN [msg |-> MsgDeleted, count |-> deletedCount]
    ELSE [msg |-> MsgNotFound, count |-> 0]

UndoLastActionOp(sh, la, t) ==
  IF IsExpired(la, t)
    THEN [sheet |-> sh, lastAction |-> la, ret |-> [msg |-> MsgExpired, count |-> 0]]
  ELSE CASE la.type = "add" ->
              LET u == UndoAddLoop(sh, la, la.tasks, 0, t) IN
              [sheet |-> u.sheet, lastAction |-> SlotAfterUndoAdd(u.lastAction),
               ret |-> UndoAddReply(u.deletedCount)]
         [] la.type = "complete" ->
              [sheet |-> sh, lastAction |-> SlotAfterIrreversible(la),
               ret |-> [msg |-> MsgCompleteIrreversible, count |-> 0]]
         [] la.type = "delete" ->
              [sheet |-> sh, lastAction |-> SlotAfterIrreversible(la),
               ret |-> [msg |-> MsgDeleteIrreversible, count |-> 0]]
         [] OTHER ->
              [sheet |-> sh, lastAction |-> la, ret |-> [msg |-> MsgNoAction, count |-> 0]]

\* ------------------------------------------------------------ formatTaskList

\* The reply templates of formatTaskList.
MsgAllDone == "Alles erledigt!"
MsgNoPersonalFor == "Keine persoenlichen Aufgaben fuer <person> gefunden (nur gemeinsame vorhanden)."
MsgNoneAt == "Keine Aufgaben bei <location> gefunden."
MsgNoneFor == "Keine Aufgaben fuer <person> gefunden."
HeadOnlyPersonal == "NUR <person>'s persoenliche Aufgaben (<count>):"
HeadAt == "Aufgaben bei <location> (<count>):"
HeadPerson == "<person>'s Aufgaben (<count>):"
HeadShared == "Gemeinsame Aufgaben (<count>):"
HeadAll == "Alle Aufgaben (<count>):"

\* JavaScript truthiness of a string-or-null value.
Truthy(x) == x # Null /\ x # ""

\* normalizedFilter of formatTaskList.
NormalizedFilter(filterPerson) ==
  IF filterPerson # "" THEN normalizePerson(filterPerson) ELSE Null

\* (mutant) the person filter that never adds the shared tasks.
PersonFilterPersonalOnly(active, normalizedFilter, excludeShared) ==
  IF Truthy(normalizedFilter)
    THEN SelectSeq(active, LAMBDA t : normalizePerson(t.person) = normalizedFilter)
    ELSE active

\* The person filter of formatTaskList.
PersonFilter(active, normalizedFilter, excludeShared) ==
  IF Truthy(normalizedFilter) /\ normalizedFilter # SHARED_PERSON_VALUE
    THEN IF excludeShared
           THEN SelectSeq(active, LAMBDA t : normalizePerson(t.person) = normalizedFilter)
           ELSE SelectSeq(active, LAMBDA t :
                  \/ normalizePerson(t.person) = normalizedFilter
                  \/ normalizePerson(t.person) = SHARED_PERSON_VALUE)
  ELSE IF normalizedFilter = SHARED_PERSON_VALUE
    THEN SelectSeq(active, LAMBDA t : normalizePerson(t.person) = SHARED_PERSON_VALUE)
    ELSE active

\* The location filter of formatTaskList.
LocationFilter(filtered, filterLocation) ==
  IF filterLocation # ""
    THEN SelectSeq(filtered, LAMBDA t :
           t.location # "" /\ Includes(ToLowerCase(t.location), ToLowerCase(filterLocation)))
    ELSE filtered

\* The tasks of a list with the given category.
OfCategory(tasks, cat) == SelectSeq(tasks, LAMBDA t : OrElse(t.category, "general") = cat)

RECURSIVE ByCategory(_)
\* The tasks grouped by category, the categories in the order of their first task.
ByCategory(tasks) ==
  IF tasks = <<>> THEN <<>>
  ELSE LET cat == OrElse(Head(tasks).category, "general") IN
       OfCategory(tasks, cat)
         \o ByCategory(SelectSeq(tasks, LAMBDA t : OrElse(t.category, "general") # cat))

\* The task lines of the reply, in output order: the block of category 'both'
\* first unless excludeShared, then the other categories.
RenderedTasks(filtered, excludeShared) ==
  IF OfCategory(filtered, "both") # <<>> /\ ~excludeShared
    THEN OfCategory(filtered, "both")
           \o ByCategory(SelectSeq(filtered, LAMBDA t : OrElse(t.category, "general") # "both"))
    ELSE ByCategory(filtered)

\* A reply of formatTaskList: its template, what fills the template, and the
\* tasks of its lines.
ListReply(msg, person, location, count, shown) ==
  [msg |-> msg, person |-> person, location |-> location, count |-> count, shown |-> shown]

formatTaskList(tasks, filterPerson, filterLocation, excludeShared) ==
  LET active == ActiveTasks(tasks)
      normalizedFilter == NormalizedFilter(filterPerson)
      filtered == LocationFilter(PersonFilter(active, normalizedFilter, excludeShared),
                                 filterLocation)
      shown == RenderedTasks(filtered, excludeShared)
  IN  IF active = <<>> THEN ListReply(MsgAllDone, "", "", 0, <<>>)
      ELSE IF (Truthy(normalizedFilter) \/ filterLocation # "") /\ filtered = <<>>
        THEN IF excludeShared /\ Truthy(normalizedFilter)
               THEN ListReply(MsgNoPersonalFor, filterPerson, "", 0, <<>>)
             ELSE IF filterLocation # ""
               THEN ListReply(MsgNoneAt, "", filterLocation, 0, <<>>)
               ELSE ListReply(MsgNoneFor, filterPerson, "", 0, <<>>)
      ELSE IF excludeShared /\ Truthy(normalizedFilter)
        THEN ListReply(HeadOnlyPersonal, filterPerson, "", Len(filtered), shown)
      ELSE IF filterLocation # ""
        THEN ListReply(HeadAt, "", filterLocation, Len(filtered), shown)
      ELSE IF Truthy(normalizedFilter) /\ normalizedFilter # SHARED_PERSON_VALUE
        THEN ListReply(HeadPerson, filterPerson, "", Len(filtered), shown)
      ELSE IF normalizedFilter = SHARED_PERSON_VALUE
        THEN ListReply(HeadShared, "", "", Len(filtered), shown)
        ELSE ListReply(HeadAll, "", "", Len(active), shown)

\* ---------------------------------------------------- fallback text rules
\* The regular expressions of the message handler. All of them carry the flag
\* i; the keywords with umlauts are written in their ASCII transliteration, and
\* the texts of the model are ASCII.

\* The lower-case keyword k matches the text at position i.
MatchesAt(s, i, k) ==
  i + Len(k) - 1 <= Len(s) /\ ToLowerCase(SubSeq(s, i, i + Len(k) - 1)) = k

\* RegExp test of an alternation of keywords.
MatchesAny(s, keywords) == \E k \in keywords : \E i \in 1..Len(s) : MatchesAt(s, i, k)

ListKeywords == {"aufgabe", "liste", "zeige", "was muss", "was brauch", "was gibt"}

DoneKeywords == {"erledigt", "fertig", "done"}

UndoKeywords == {"rueckgaengig", "undo", "falsch"}

OnlyKeywords == {"nur", "only", "ausschliesslich"}

PersonKeywords == {"moana", "jeremy", "ich", "meine", "beide", "gemeinsam"}

RECURSIVE RemoveFrom(_, _, _)
\* text.replace(/k1|k2|.../gi, '') from position i on.
RemoveFrom(s, i, keywords) ==
  IF i > Len(s) THEN ""
  ELSE IF \E k \in keywords : MatchesAt(s, i, k)
    THEN LET k == CHOOSE k \in keywords : MatchesAt(s, i, k) IN
         RemoveFrom(s, i + Len(k), keywords)
    ELSE CharAt(s, i) \o RemoveFrom(s, i + 1, keywords)

WordChars == "abcdefghijklmnopqrstuvwxyzABCDEFGHIJKLMNOPQRSTUVWXYZ0123456789_"

\* \w at position i of s.
IsWordCharAt(s, i) == i >= 1 /\ i <= Len(s) /\ Includes(WordChars, CharAt(s, i))

\* \s at position i of s.
IsSpaceAt(s, i) == i >= 1 /\ i <= Len(s) /\ CharAt(s, i) = " "

RECURSIVE WordRun(_, _)
\* (\w+) from position i: the longest run of word characters, "" when none.
WordRun(s, i) ==
  IF IsWordCharAt(s, i) THEN CharAt(s, i) \o WordRun(s, i + 1) ELSE ""

RECURSIVE SkipSpaces(_, _)
SkipSpaces(s, i) == IF IsSpaceAt(s, i) THEN SkipSpaces(s, i + 1) ELSE i

\* /\b(k1|k2|...)\b/i
HasWord(s, keywords) ==
  \E k \in keywords : \E i \in 1..Len(s) :
     /\ MatchesAt(s, i, k)
     /\ ~IsWordCharAt(s, i - 1)
     /\ ~IsWordCharAt(s, i + Len(k))

\* The capture of /bei\s+(\w+)|@(\w+)/i when it matches at position i, else "".
LocationCaptureAt(s, i) ==
  IF MatchesAt(s, i, "bei") /\ IsSpaceAt(s, i + 3)
    THEN WordRun(s, SkipSpaces(s, i + 3))
  ELSE IF MatchesAt(s, i, "@") THEN WordRun(s, i + 1)
  ELSE ""

\* locationMatch[1] || locationMatch[2] of the leftmost match, "" without match.
LocationMatch(s) ==
  IF \E i \in 1..Len(s) : LocationCaptureAt(s, i) # ""
    THEN LocationCaptureAt(s, CHOOSE i \in 1..Len(s) :
           /\ LocationCaptureAt(s, i) # ""
           /\ \A j \in 1..(i - 1) : LocationCaptureAt(s, j) = "")
    ELSE ""

\* personMatch[1].toLowerCase() of the leftmost match, "" without match.
PersonMatch(s) ==
  IF MatchesAny(s, PersonKeywords)
    THEN LET i == CHOOSE i \in 1..Len(s) :
                    /\ \E k \in PersonKeywords : MatchesAt(s, i, k)
                    /\ \A j \in 1..(i - 1) : \A k \in PersonKeywords : ~MatchesAt(s, j, k)
         IN  CHOOSE k \in PersonKeywords : MatchesAt(s, i, k)
    ELSE ""

\* person.charAt(0).toUpperCase() + person.slice(1), for the two names.
Capitalize(person) == IF person = "moana" THEN "Moana" ELSE "Jeremy"

\* The filters the list rule of the fallback takes from the text.
ListFilters(text, userName) ==
  LET filterLocation == LocationMatch(text)
      person == PersonMatch(text)
  IN  [excludeShared |-> HasWord(text, OnlyKeywords),
       location |-> filterLocation,
       person |-> IF person # "" /\ filterLocation = ""
                    THEN (IF person \in {"ich", "meine"} THEN userName
                          ELSE IF person \in {"beide", "gemeinsam"} THEN SHARED_PERSON_VALUE
                          ELSE Capitalize(person))
                    ELSE ""]

\* (mutant) the completion rule handing the whole text to completeTask.
WholeText(text) == Trim(text)

\* The task fragment of the completion rule.
DoneFragment(text) == Trim(RemoveFrom(text, 1, DoneKeywords))

\* ---------------------------------------------------------- message handler
\* One inbound message, handled from its first line to its reply. The store is
\* reachable or not for the whole request (store = "up" / "down"); what the
\* language model answers is an input of the request.

\* The reply templates of the message handler and of handleAI.
MsgNotConfigured == "Google Sheets ist nicht konfiguriert. Bitte ueberpruefe die Umgebungsvariablen."
MsgHelp == "Hallo! Ich bin euer Aufgaben-Bot"
MsgDebug == "Debug-Modus ist jetzt <AN/AUS>"
MsgCompleted == "\"<task>\" erledigt!"
MsgNotFoundName == "Nicht gefunden: \"<name>\""
MsgDefault == "Ich verstehe \"<text>\" nicht."
MsgError == "Fehler: <message>"
MsgExists == "Diese Aufgaben existieren bereits"
MsgAddedOne == "<Gemeinsame Aufgabe / Aufgabe fuer person> hinzugefuegt: \"<task>\""
MsgAddedMany == "<n> gemeinsame Aufgabe(n) hinzugefuegt und <m> Aufgabe(n) fuer <persons> hinzugefuegt!"
MsgDeletedTask == "\"<task>\" geloescht!"
MsgUpdated == "Aufgabe aktualisiert!"
MsgUnsure == "Ich bin mir nicht sicher, was du meinst. Kannst du es anders formulieren?"
MsgContent == "<message.content>"
MsgImproved == "<evaluation.improvedResponse>"

\* A reply built from a template and the text that fills it.
TextReply(msg, text) == [msg |-> msg, text |-> text]

\* The null result of handleAI and handleAIWithReasoning.
NoReply == [msg |-> Null]

BlankSheet == [r \in Rows |-> BlankRow]

\* What a request reads of the store: when values.get fails, getAllTasks
\* catches the error and returns [], as for a sheet without rows. The store is
\* "up", "down" (reads and writes fail) or "readfail" (reads fail, writes
\* arrive).
StoreView(sh, store) == IF store = "up" THEN sh ELSE BlankSheet

\* The store after an operation that ran on the view: what it wrote. An
\* operation that read an empty list writes rows only (addTasks), and they
\* arrive in the store unless it is down.
Written(sh, store, result) ==
  CASE store = "up" -> result
    [] store = "down" -> sh
    [] store = "readfail" ->
         [q \in Rows |-> IF result[q] # BlankRow THEN result[q] ELSE sh[q]]

\* A store operation that assigns lastAction before its write, so that the
\* record stays when the write throws.
OnStoreRecordFirst(sh, la, store, r) ==
  [sheet |-> Written(sh, store, r.sheet),
   lastAction |-> r.lastAction,
   ret |-> r.ret,
   threw |-> store = "down" /\ r.sheet # BlankSheet]

\* The outcome of a store operation that ran on the view of the store: a write
\* to the unreachable store throws before lastAction is assigned.
OnStore(sh, la, store, r) ==
  LET threw == store = "down" /\ r.sheet # BlankSheet IN
  [sheet |-> Written(sh, store, r.sheet),
   lastAction |-> IF threw THEN la ELSE r.lastAction,
   ret |-> r.ret,
   threw |-> threw]

\* The reply handleAI builds from the result of addTasks.
AddReply(result) ==
  IF result.count = 0 THEN TextReply(MsgExists, "")
  ELSE IF result.count = 1
    THEN [msg |-> MsgAddedOne, isShared |-> result.addedInfo[1].isShared,
          person |-> result.addedInfo[1].person, task |-> result.addedInfo[1].task]
    ELSE [msg |-> MsgAddedMany,
          shared |-> Len(SelectSeq(result.addedInfo, LAMBDA i : i.isShared)),
          personal |-> Len(SelectSeq(result.addedInfo, LAMBDA i : ~i.isShared))]

\* The function a tool name stands for.
ToolFunction(name) ==
  CASE name = "show_tasks" -> "formatTaskList"
    [] name = "add_tasks" -> "addTasks"
    [] name = "complete_task" -> "completeTask"
    [] name = "delete_task" -> "deleteTask"
    [] name = "update_task" -> "updateTask"
    [] name = "undo_last_action" -> "undoLastAction"

\* The reply a case of the switch builds from what the function returned.
ToolReply(tool, ret) ==
  CASE tool.name = "add_tasks" -> AddReply(ret)
    [] tool.name = "complete_task" ->
         IF ret # Null THEN TextReply(MsgCompleted, ret)
         ELSE TextReply(MsgNotFoundName, tool.args.taskName)
    [] tool.name = "delete_task" ->
         IF ret # Null THEN TextReply(MsgDeletedTask, ret)
         ELSE TextReply(MsgNotFoundName, tool.args.taskName)
    [] tool.name = "update_task" ->
         IF ret THEN TextReply(MsgUpdated, "")
         ELSE TextReply(MsgNotFoundName, tool.args.taskName)
    [] tool.name \in {"show_tasks", "undo_last_action"} -> ret

\* A case of the switch after its function came back with o.
ToolOutcome(tool, o) ==
  [sheet |-> o.sheet, lastAction |-> o.lastAction, threw |-> o.threw,
   reply |-> ToolReply(tool, o.ret), trace |-> <<ToolFunction(tool.name)>>]

\* The switch of handleAI over the tool the model selected. tasks is the
\* snapshot of the request; the store operations read the store again.
RunTool(tool, sh, la, tasks, store, userName, t) ==
  ToolOutcome(tool,
    CASE tool.name = "show_tasks" ->
           [sheet |-> sh, lastAction |-> la, threw |-> FALSE,
            ret |-> formatTaskList(tasks, tool.args.person, tool.args.location,
                                   tool.args.excludeShared)]
      [] tool.name = "add_tasks" ->
           OnStore(sh, la, store,
             AddTasksOp(StoreView(sh, store), la, getAllTasks(StoreView(sh, store)),
                        tool.args.tasks, userName, t, Today))
      [] tool.name = "complete_task" ->
           OnStore(sh, la, store,
             CompleteTaskOp(StoreView(sh, store), la, getAllTasks(StoreView(sh, store)),
                            tool.args.taskName, t))
      [] tool.name = "delete_task" ->
           OnStore(sh, la, store,
             DeleteTaskOp(StoreView(sh, store), la, getAllTasks(StoreView(sh, store)),
                          tool.args.taskName, t))
      [] tool.name = "update_task" ->
           OnStore(sh, la, store,
             UpdateTaskOp(StoreView(sh, store), la, getAllTasks(StoreView(sh, store)),
                          tool.args.taskName, tool.args.updates, Today))
      [] tool.name = "undo_last_action" ->
           OnStore(sh, la, store, UndoLastActionOp(StoreView(sh, store), la, t)))

\* What handleAI returns after the switch ran with outcome r: a failure inside
\* the try block returns null.
AfterTool(r) ==
  [sheet |-> r.sheet, lastAction |-> r.lastAction,
   reply |-> IF r.threw THEN NoReply ELSE r.reply,
   trace |-> <<"handleAI">> \o r.trace]

\* handleAI: one chat completion and, when it selects a tool, the switch. ai is
\* what the completion does: it fails, answers with content or without, or
\* selects a tool.
handleAI(sh, la, tasks, ai, store, userName, t) ==
  CASE ai.kind = "fail" ->
         [sheet |-> sh, lastAction |-> la, reply |-> NoReply, trace |-> <<"handleAI">>]
    [] ai.kind = "content" ->
         [sheet |-> sh, lastAction |-> la, reply |-> TextReply(MsgContent, ""),
          trace |-> <<"handleAI">>]
    [] ai.kind = "empty" ->
         [sheet |-> sh, lastAction |-> la, reply |-> TextReply(MsgUnsure, ""),
          trace |-> <<"handleAI">>]
    [] ai.kind = "tool" ->
         AfterTool(RunTool(ai.tool, sh, la, tasks, store, userName, t))

\* A two-stage handler that gives up when the plan or the evaluation failed.
AbortOnFailure(r, req) ==
  IF ~req.plan \/ req.eval = "fail"
    THEN [r EXCEPT !.reply = NoReply, !.trace = <<"createPlan">> \o @]
    ELSE [r EXCEPT !.trace = <<"createPlan">> \o @ \o <<"evaluateResult">>]

\* An evaluation step that drops the undo record when it rewrites the reply.
EvaluationDropsRecord(r, req) ==
  IF r.reply = NoReply \/ ~req.plan
    THEN [r EXCEPT !.trace = <<"createPlan">> \o @]
    ELSE [r EXCEPT !.reply = IF req.eval = "improved" THEN TextReply(MsgImproved, "")
                             ELSE @,
                   !.lastAction = IF req.eval = "improved" THEN NoAction ELSE @,
                   !.trace = <<"createPlan">> \o @ \o <<"evaluateResult">>]

\* Steps 2 and 3 of handleAIWithReasoning once handleAI returned r: null is
\* passed on, and evaluateResult is called when there is a plan.
AfterHandleAI(r, req) ==
  IF r.reply = NoReply
    THEN [r EXCEPT !.trace = <<"createPlan">> \o @]
  ELSE IF ~req.plan
    THEN [r EXCEPT !.trace = <<"createPlan">> \o @]
    ELSE [r EXCEPT !.reply = IF req.eval = "improved" THEN TextReply(MsgImproved, "")
                             ELSE @,
                   !.trace = <<"createPlan">> \o @ \o <<"evaluateResult">>]

\* handleAIWithReasoning: createPlan, handleAI with the plan as hint, and
\* evaluateResult when there is a plan and a result. plan tells whether the
\* planning call returned a plan; eval is what the evaluation call does.
handleAIWithReasoning(sh, la, tasks, req, t) ==
  AfterHandleAI(handleAI(sh, la, tasks, req.ai, req.store, req.userName, t), req)

\* A fallback rule sends what its function returned; when the function threw,
\* the handler's catch sends the error reply.
FallbackOutcome(r) ==
  [sheet |-> r.sheet, lastAction |-> r.lastAction,
   replies |-> <<IF r.threw THEN TextReply(MsgError, "") ELSE r.reply>>,
   trace |-> r.trace \o <<"sendMessage">>]

\* The list rule's call of formatTaskList with the filters f read from the text.
ShowFiltered(tasks, f) == formatTaskList(tasks, f.person, f.location, f.excludeShared)

\* Fallback rules that look for a completion keyword before a list keyword.
FallbackCompletionFirst(sh, la, tasks, text, store, userName, t) ==
  IF MatchesAny(text, DoneKeywords) /\ DoneFragment(text) = ""
    THEN [sheet |-> sh, lastAction |-> la, replies |-> <<>>, trace |-> <<>>]
  ELSE IF MatchesAny(text, DoneKeywords)
    THEN FallbackOutcome(
           RunTool([name |-> "complete_task", args |-> [taskName |-> DoneFragment(text)]],
                   sh, la, tasks, store, userName, t))
  ELSE IF MatchesAny(text, ListKeywords)
    THEN [sheet |-> sh, lastAction |-> la,
          replies |-> <<ShowFiltered(tasks, ListFilters(text, userName))>>,
          trace |-> <<"formatTaskList", "sendMessage">>]
  ELSE IF MatchesAny(text, UndoKeywords)
    THEN FallbackOutcome(
           RunTool([name |-> "undo_last_action", args |-> [none |-> TRUE]],
                   sh, la, tasks, store, userName, t))
  ELSE [sheet |-> sh, lastAction |-> la, replies |-> <<TextReply(MsgDefault, text)>>,
        trace |-> <<"sendMessage">>]

\* The fallback rules of the message handler, in their order.
Fallback(sh, la, tasks, text, store, userName, t) ==
  IF MatchesAny(text, ListKeywords)
    THEN [sheet |-> sh, lastAction |-> la,
          replies |-> <<ShowFiltered(tasks, ListFilters(text, userName))>>,
          trace |-> <<"formatTaskList", "sendMessage">>]
  ELSE IF MatchesAny(text, DoneKeywords) /\ DoneFragment(text) = ""
    THEN [sheet |-> sh, lastAction |-> la, replies |-> <<>>, trace |-> <<>>]
  ELSE IF MatchesAny(text, DoneKeywords) \/ MatchesAny(text, UndoKeywords)
    THEN FallbackOutcome(
           RunTool(IF MatchesAny(text, DoneKeywords)
                     THEN [name |-> "complete_task",
                           args |-> [taskName |-> DoneFragment(text)]]
                     ELSE [name |-> "undo_last_action", args |-> [none |-> TRUE]],
                   sh, la, tasks, store, userName, t))
  ELSE [sheet |-> sh, lastAction |-> la, replies |-> <<TextReply(MsgDefault, text)>>,
        trace |-> <<"sendMessage">>]

\* A handler that goes on without looking at the sheets client.
SheetsAssumedAvailable(cfg) == TRUE

\* The handler's first check: the sheets client was built at start-up.
SheetsAvailable(cfg) == cfg.sheets

\* The handler after the reasoning step returned a: its reply is sent, or the
\* fallback rules run on the text.
ReplyOrFallback(a, tasks, text, req, t) ==
  IF a.reply # NoReply
    THEN [sheet |-> a.sheet, lastAction |-> a.lastAction, replies |-> <<a.reply>>,
          trace |-> a.trace \o <<"sendMessage">>]
    ELSE [Fallback(a.sheet, a.lastAction, tasks, text, req.store, req.userName, t)
            EXCEPT !.trace = a.trace \o @]

\* The mention of the bot in a group message: '@' and the name of bot.getMe().
BotMention == "@bot"

\* cleanText: the text handed to handleAIWithReasoning.
CleanText(text, isGroup) ==
  IF isGroup THEN Trim(ReplaceFirstFrom(text, 1, BotMention)) ELSE text

\* The handler after removeDuplicates left the store as d: the read of the
\* tasks, the commands, the reasoning step when openai is there.
AfterCleanup(d, la, cfg, text, req, t) ==
  IF text \in {"/start", "/help"}
    THEN [sheet |-> d.sheet, lastAction |-> la, prompt |-> Null,
          replies |-> <<TextReply(MsgHelp, "")>>, trace |-> <<"sendMessage">>]
  ELSE IF text = "/debug"
    THEN [sheet |-> d.sheet, lastAction |-> la, prompt |-> Null,
          replies |-> <<TextReply(MsgDebug, "")>>, trace |-> <<"sendMessage">>]
  ELSE ReplyOrFallback(
         IF cfg.openai
           THEN handleAIWithReasoning(d.sheet, la,
                                      getAllTasks(StoreView(d.sheet, req.store)), req, t)
           ELSE [sheet |-> d.sheet, lastAction |-> la, reply |-> NoReply, trace |-> <<>>],
         getAllTasks(StoreView(d.sheet, req.store)), text, req, t)
       @@ [prompt |-> IF cfg.openai THEN CleanText(text, req.isGroup) ELSE Null]

\* bot.on('message'): what the request leaves in the store and in the undo
\* slot, the replies it sends and the calls it makes, in their order.
HandleMessage(sh, la, cfg, req, t) ==
  IF Trim(req.text) = ""
    THEN [sheet |-> sh, lastAction |-> la, prompt |-> Null, replies |-> <<>>,
          trace |-> <<>>]
  ELSE IF ~SheetsAvailable(cfg)
    THEN [sheet |-> sh, lastAction |-> la, prompt |-> Null,
          replies |-> <<TextReply(MsgNotConfigured, "")>>, trace |-> <<"sendMessage">>]
  ELSE [AfterCleanup(
          OnStore(sh, la, req.store,
                  RemoveDuplicatesOp(StoreView(sh, req.store), la,
                                     getAllTasks(StoreView(sh, req.store)))),
          la, cfg, Trim(req.text), req, t)
          EXCEPT !.trace = <<"removeDuplicates", "getAllTasks">> \o @]

\* ------------------------------------------------------------------ inputs

Cand(text, who, loc, when, cat) ==
  [task |-> text, assignedTo |-> who, location |-> loc, when |-> when, category |-> cat]

Upd(text, who, loc, when, cat) ==
  [task |-> text, person |-> who, location |-> loc, when |-> when, category |-> cat]

\* The add candidates of Spec (args.tasks items of the add_tasks call): a task
\* without assignee, the same text with a trailing blank and with an explicit
\* category, and two personal tasks whose person and location differ only in
\* where the underscore stands.
Candidates ==
  {Cand("a", "", "", "", ""),
   Cand("a ", "", "", "", ""),
   Cand("Ab", "Kim_", "", "", ""),
   Cand("Ab", "Kim", "_", "", "")}

\* The batches of Spec: every sequence of at most two candidates.
Batches ==
  {<<>>} \cup {<<x>> : x \in Candidates} \cup {<<x, y>> : x \in Candidates, y \in Candidates}

UserNames == {"Jeremy"}

\* The name fragments handed to completeTask and deleteTask.
Fragments == {"A", "b"}

\* The updateTask calls of Spec: <<taskName, updates>>.
UpdateCalls == {<<"b", Upd("", "Kim", "_", "", "")>>}

\* The add candidates, batches, fragments and updateTask calls of SpecUndo.
UndoCandidates == {Cand("a", "", "", "", ""), Cand("ab", "", "", "", "")}

UndoBatches ==
  {<<x>> : x \in UndoCandidates} \cup {<<x, y>> : x \in UndoCandidates, y \in UndoCandidates}

UndoFragments == {"a", "b"}

UndoUpdateCalls == {<<"a", Upd("ab", "", "", "", "")>>}

\* The add candidates of SpecAssign: without assignee and category absent,
\* 'general' or explicit; with a shared indicator; with a name; with a pronoun;
\* with the text of another candidate at a different location; without text
\* and with a blank as text.
AssignCandidates ==
  {Cand("a", "", "", "", ""), Cand("b", "", "", "", "general"),
   Cand("c", "", "", "", "shopping"), Cand("d", "zusammen", "", "", "work"),
   Cand("e", "Moana", "", "", "general"), Cand("f", "ich", "", "", ""),
   Cand("a", "", "_", "", ""), Cand("", "", "", "", ""), Cand(" ", "Moana", "", "", "")}

AssignBatches ==
  {<<x>> : x \in AssignCandidates}
    \cup {<<x, y>> : x \in AssignCandidates, y \in AssignCandidates}

AssignFragments == {"a", "c"}

\* The calls of SpecConc, as <<name, arguments>> records.
ConcCalls ==
  {[name |-> "add", arg |-> [tasks |-> <<Cand("a", "", "", "", "")>>, userName |-> "Jeremy"]],
   [name |-> "add", arg |-> [tasks |-> <<Cand("b", "", "", "", "")>>, userName |-> "Jeremy"]],
   [name |-> "complete", arg |-> [taskName |-> "a"]],
   [name |-> "delete", arg |-> [taskName |-> "a"]],
   [name |-> "update", arg |-> [taskName |-> "a", updates |-> Upd("", "", "_", "", "")]],
   [name |-> "reconcile", arg |-> [none |-> TRUE]]}

\* The add candidates of SpecList: a shared task, one of Jeremy and one of Moana,
\* at different locations.
ListCandidates ==
  {Cand("a", "", "dm", "", ""), Cand("b", "Jeremy", "", "", ""),
   Cand("c", "Moana", "x", "", "")}

ListBatches ==
  {<<x>> : x \in ListCandidates} \cup {<<x, y>> : x \in ListCandidates, y \in ListCandidates}

ListFragments == {"b"}

\* The filters handed to formatTaskList ("" is an absent filter).
FilterPersons == {"", "jeremy", "Moana", "wir"}

FilterLocations == {"", "DM", "x"}

\* The reference days of SpecDate (one of each weekday) and the date
\* expressions handed to parseDate.
RefDays == 0..6

DateExpressions ==
  DayMapKeys \cup {"Montag", " SONNTAG ", "Freitag", "2024-01-09", "bald", ""}

\* The requests of SpecMsg. A request is the text of the message, its sender,
\* whether the store is reachable while it is handled, and what the three calls
\* to the language model do (read only when openai is initialised).
Req(text, store, plan, ai, eval) ==
  [text |-> text, userName |-> "Jeremy", isGroup |-> FALSE, store |-> store,
   plan |-> plan, ai |-> ai, eval |-> eval]

\* The request as a message of a group conversation.
InGroup(req) == [req EXCEPT !.isGroup = TRUE]

Tool(name, args) == [kind |-> "tool", tool |-> [name |-> name, args |-> args]]

MsgTexts ==
  {"/start", "zeige liste", "b erledigt", "undo", "hallo", "done", "liste done",
   "undo done"}

\* Requests whose calls to the language model fail, if they are made at all.
FallbackRequests ==
  {Req(text, "up", FALSE, [kind |-> "fail"], "fail") : text \in MsgTexts}
    \cup {Req(text, "down", FALSE, [kind |-> "fail"], "fail") :
            text \in {"/start", "zeige liste", "b erledigt", "undo"}}
    \cup {InGroup(Req("@bot b erledigt", "up", FALSE, [kind |-> "fail"], "fail"))}

\* Requests the language model answers.
AIRequests ==
  {Req("hallo", "up", TRUE, [kind |-> "content"], "improved"),
   Req("hallo", "up", FALSE, [kind |-> "empty"], "none"),
   InGroup(Req("@bot hallo", "up", TRUE, [kind |-> "content"], "none")),
   Req("b erledigt", "up", TRUE, Tool("complete_task", [taskName |-> "b"]), "improved"),
   Req("b erledigt", "up", FALSE, Tool("complete_task", [taskName |-> "b"]), "none"),
   Req("hallo", "up", TRUE, Tool("add_tasks", [tasks |-> <<Cand("c", "", "", "", "")>>]), "fail"),
   Req("hallo", "down", TRUE, Tool("add_tasks", [tasks |-> <<Cand("c", "", "", "", "")>>]), "none"),
   Req("hallo", "readfail", FALSE, Tool("add_tasks", [tasks |-> <<Cand("b", "Jeremy", "", "", "")>>]),
       "none"),
   Req("zeige liste", "up", TRUE,
       Tool("show_tasks", [person |-> "", location |-> "", excludeShared |-> FALSE]), "none"),
   Req("hallo", "up", TRUE, Tool("delete_task", [taskName |-> "c"]), "none"),
   Req("hallo", "up", TRUE,
       Tool("update_task", [taskName |-> "b", updates |-> Upd("", "", "dm", "", "")]), "none"),
   Req("undo", "up", TRUE, Tool("undo_last_action", [none |-> TRUE]), "none")}

\* What start-up may have initialised.
MsgConfigs ==
  {[sheets |-> FALSE, openai |-> TRUE], [sheets |-> TRUE, openai |-> FALSE],
   [sheets |-> TRUE, openai |-> TRUE]}

\* The sheet an earlier run of the bot left behind: two active tasks.
PrefilledSheet ==
  AddTasksOp([r \in Rows |-> BlankRow], NoAction, <<>>,
             <<Cand("ab", "", "", "", ""), Cand("b", "Jeremy", "", "", "")>>,
             "Jeremy", 0, Today).sheet

\* The clock advances of the model: one millisecond, or the whole undo window.
TickSteps == {1, UndoWindow}

\* The requests that may be in flight at once.
Procs == {"p1", "p2"}

\* ------------------------------------------------------------------- state

VARIABLES
  sheet,       \* the task rows of the spreadsheet, by row number
  lastAction,  \* the undo slot (module variable lastAction)
  now,         \* Date.now()
  inflight,    \* per request: the call suspended at its store write, or Idle
  op,          \* the call that returned last and what it returned
  config       \* which collaborators start-up initialised: sheets, openai

vars == <<sheet, lastAction, now, inflight, op, config>>

\* What op records of a call: its name, its arguments and its return value, both
\* as records (a call without arguments, or without a value, records None).
Call(name, arg, ret) == [name |-> name, arg |-> arg, ret |-> ret]

None == [none |-> TRUE]

\* A request that is not inside a call.
Idle == [pc |-> "idle"]

\* Start-up found the credentials of the sheet and the key of the language model.
Configured == [sheets |-> TRUE, openai |-> TRUE]

Init ==
  /\ sheet = [r \in Rows |-> BlankRow]
  /\ lastAction = NoAction
  /\ now = 0
  /\ inflight = [p \in Procs |-> Idle]
  /\ op = Call("init", None, None)
  /\ config = Configured

\* A call that runs to its end with no other request in between: r is what it
\* wrote, ret what it returned.
Apply(name, arg, r, ret) ==
  /\ sheet' = r.sheet
  /\ lastAction' = r.lastAction
  /\ op' = Call(name, arg, ret)
  /\ UNCHANGED <<now, inflight, config>>

\* addTasks; maxRow is the model's cap on the rows written.
AddTasks(tasks, userName, maxRow) ==
  LET existingTasks == getAllTasks(sheet)
      r == AddTasksOp(sheet, lastAction, existingTasks, tasks, userName, now, Today)
  IN  /\ NextFreeRow(existingTasks) + Len(tasks) - 1 <= maxRow
      /\ Apply("add", [tasks |-> tasks, userName |-> userName], r, r.ret)

CompleteTask(taskName) ==
  LET r == CompleteTaskOp(sheet, lastAction, getAllTasks(sheet), taskName, now) IN
  Apply("complete", [taskName |-> taskName], r, [task |-> r.ret])

DeleteTask(taskName) ==
  LET r == DeleteTaskOp(sheet, lastAction, getAllTasks(sheet), taskName, now) IN
  Apply("delete", [taskName |-> taskName], r, [task |-> r.ret])

UpdateTask(taskName, updates) ==
  LET r == UpdateTaskOp(sheet, lastAction, getAllTasks(sheet), taskName, updates, Today) IN
  Apply("update", [taskName |-> taskName, updates |-> updates], r, [found |-> r.ret])

CompleteAllTasks ==
  LET r == CompleteAllTasksOp(sheet, lastAction, getAllTasks(sheet)) IN
  Apply("completeAll", None, r, [n |-> r.ret])

DeleteAllTasks ==
  LET r == DeleteAllTasksOp(sheet, lastAction, getAllTasks(sheet)) IN
  Apply("deleteAll", None, r, [n |-> r.ret, cleared |-> r.cleared])

RemoveDuplicates ==
  LET r == RemoveDuplicatesOp(sheet, lastAction, getAllTasks(sheet)) IN
  Apply("reconcile", None, r, [n |-> r.ret])

UndoLastAction ==
  LET r == UndoLastActionOp(sheet, lastAction, now) IN
  Apply("undo", None, r, r.ret)

\* Time passes between two calls. The model clock only takes the values within
\* MaxExtra milliseconds after 0 and after the undo window.
Tick(d) ==
  /\ now + d <= UndoWindow + MaxExtra
  /\ (now + d) % UndoWindow <= MaxExtra
  /\ now' = now + d
  /\ op' = Call("tick", [d |-> d], None)
  /\ UNCHANGED <<sheet, lastAction, inflight, config>>

\* The store operations, called one after the other in any order.
Next ==
  \/ \E tasks \in Batches, userName \in UserNames : AddTasks(tasks, userName, MaxRow)
  \/ \E taskName \in Fragments : CompleteTask(taskName)
  \/ \E taskName \in Fragments : DeleteTask(taskName)
  \/ \E c \in UpdateCalls : UpdateTask(c[1], c[2])
  \/ CompleteAllTasks
  \/ DeleteAllTasks
  \/ RemoveDuplicates

Spec == Init /\ [][Next]_vars

\* The operations that touch the undo slot, the undo itself and the clock.
NextUndo ==
  \/ \E tasks \in UndoBatches, userName \in UserNames :
        AddTasks(tasks, userName, MaxSmallRow)
  \/ \E taskName \in UndoFragments : CompleteTask(taskName)
  \/ \E taskName \in UndoFragments : DeleteTask(taskName)
  \/ \E c \in UndoUpdateCalls : UpdateTask(c[1], c[2])
  \/ UndoLastAction
  \/ \E d \in TickSteps : Tick(d)

SpecUndo == Init /\ [][NextUndo]_vars

\* addTasks over candidates that differ in assignee and category.
NextAssign ==
  \/ \E tasks \in AssignBatches, userName \in UserNames :
        AddTasks(tasks, userName, MaxSmallRow)
  \/ \E taskName \in AssignFragments : CompleteTask(taskName)
  \/ \E taskName \in AssignFragments : DeleteTask(taskName)

SpecAssign == Init /\ [][NextAssign]_vars

\* The add candidates and updateTask calls of SpecPerson: assignee mentions
\* that are absent, a shared indicator, a first-person pronoun, a known name
\* and an unknown name.
PersonCandidates ==
  {Cand("a", "", "", "", ""), Cand("b", "wir", "", "", ""),
   Cand("c", "ich", "", "", ""), Cand("d", "Moana", "", "", "")}

PersonBatches ==
  {<<x>> : x \in PersonCandidates}
    \cup {<<x, y>> : x \in PersonCandidates, y \in PersonCandidates}

PersonUpdateCalls ==
  {<<n, Upd("", p, "", "", "")>> : n \in {"a", "c"}, p \in {"Zusammen", "Mir", "jeremy", "Kim"}}

\* addTasks and updateTask over assignee mentions of every kind.
NextPerson ==
  \/ \E tasks \in PersonBatches, userName \in UserNames :
        AddTasks(tasks, userName, MaxSmallRow)
  \/ \E c \in PersonUpdateCalls : UpdateTask(c[1], c[2])

SpecPerson == Init /\ [][NextPerson]_vars

\* The show_tasks tool and the list rule of the fallback: formatTaskList over the
\* snapshot of the request.
ShowTasks(filterPerson, filterLocation, excludeShared) ==
  /\ op' = Call("show",
               [person |-> filterPerson, location |-> filterLocation,
                excludeShared |-> excludeShared],
               formatTaskList(getAllTasks(sheet), filterPerson, filterLocation, excludeShared))
  /\ UNCHANGED <<sheet, lastAction, now, inflight, config>>

\* Listing over sheets with shared and personal tasks, some of them done.
NextList ==
  \/ \E tasks \in ListBatches, userName \in UserNames :
        AddTasks(tasks, userName, MaxSmallRow)
  \/ \E taskName \in ListFragments : CompleteTask(taskName)
  \/ \E filterPerson \in FilterPersons, filterLocation \in FilterLocations,
        excludeShared \in BOOLEAN :
        ShowTasks(filterPerson, filterLocation, excludeShared)

SpecList == Init /\ [][NextList]_vars

\* getNextWeekday and parseDate called on a reference day.
GetNextWeekday(dayOfWeek, today) ==
  /\ op' = Call("getNextWeekday", [dayOfWeek |-> dayOfWeek, today |-> today],
               [day |-> getNextWeekday(dayOfWeek, today)])
  /\ UNCHANGED <<sheet, lastAction, now, inflight, config>>

ParseDate(dateStr, today) ==
  /\ op' = Call("parseDate", [dateStr |-> dateStr, today |-> today],
               [date |-> parseDate(dateStr, today)])
  /\ UNCHANGED <<sheet, lastAction, now, inflight, config>>

NextDate ==
  \/ \E dayOfWeek \in 0..6, today \in RefDays : GetNextWeekday(dayOfWeek, today)
  \/ \E dateStr \in DateExpressions, today \in RefDays : ParseDate(dateStr, today)

SpecDate == Init /\ [][NextDate]_vars

\* The message handler on one inbound message, run without interleaving.
ReceiveMessage(req) ==
  /\ (req.ai.kind = "tool" /\ req.ai.tool.name = "add_tasks") =>
        NextFreeRow(getAllTasks(StoreView(sheet, req.store)))
          + Len(req.ai.tool.args.tasks) - 1 <= MaxSmallRow
  /\ \E r \in {HandleMessage(sheet, lastAction, config, req, now)} :
       /\ sheet' = r.sheet
       /\ lastAction' = r.lastAction
       /\ op' = Call("message", req,
                     [replies |-> r.replies, trace |-> r.trace, prompt |-> r.prompt])
  /\ UNCHANGED <<now, inflight, config>>

\* The process starts with or without its collaborators, on an empty sheet or
\* on the sheet of an earlier run.
InitMsg ==
  /\ sheet \in {[r \in Rows |-> BlankRow], PrefilledSheet}
  /\ lastAction = NoAction
  /\ now = 0
  /\ inflight = [p \in Procs |-> Idle]
  /\ op = Call("init", None, None)
  /\ config \in MsgConfigs

NextMsg ==
  \/ \E req \in FallbackRequests : ReceiveMessage(req)
  \/ \E req \in AIRequests : config.openai /\ ReceiveMessage(req)

SpecMsg == InitMsg /\ [][NextMsg]_vars

\* ------------------------------------------------- concurrent requests
\* The message handler is async and is not serialised: a second message is
\* handled while the first one waits for the store. Every store operation first
\* awaits getAllTasks and then works on that snapshot; the model splits a call
\* at this await. The store write that follows and the assignment to lastAction
\* behind it are taken as one step.

\* The tool calls of SpecTool: complete_task and delete_task with an empty
\* and with a matching name, and adds that fill the sheet again.
ToolRequests ==
  {Req("hallo", "up", FALSE, Tool(n, [taskName |-> f]), "none") :
      n \in {"complete_task", "delete_task"}, f \in {"", "b"}}
    \cup {Req("hallo", "up", FALSE, Tool("add_tasks", [tasks |-> <<Cand(x, "", "", "", "")>>]),
              "none") : x \in {"b", "c"}}

\* Messages for which the language model selects a store operation.
NextTool == \E req \in ToolRequests : config.openai /\ ReceiveMessage(req)

SpecTool == InitMsg /\ [][NextTool]_vars

\* `await getAllTasks()` at the head of a store operation of request p.
ReadTasks(p, c) ==
  LET tasks == getAllTasks(sheet) IN
  /\ inflight[p] = Idle
  /\ c.name = "add" => NextFreeRow(tasks) + Len(c.arg.tasks) - 1 <= MaxConcRow
  /\ inflight' = [inflight EXCEPT ![p] = [pc |-> "read", call |-> c, tasks |-> tasks]]
  /\ UNCHANGED <<sheet, lastAction, now, op, config>>

\* Request p is suspended in the named operation, holding its snapshot.
Suspended(p, name) == inflight[p].pc = "read" /\ inflight[p].call.name = name

\* The rest of the operation of request p: r is what it writes, ret what it returns.
Resume(p, r, ret) ==
  /\ sheet' = r.sheet
  /\ lastAction' = r.lastAction
  /\ op' = Call(inflight[p].call.name, inflight[p].call.arg, ret)
  /\ inflight' = [inflight EXCEPT ![p] = Idle]
  /\ UNCHANGED <<now, config>>

\* (mutant) an addTasks that reads the tasks again at its write instead of
\* using the snapshot it awaited.
AddTasksRereading(p) ==
  /\ Suspended(p, "add")
  /\ LET f == inflight[p]
         r == AddTasksOp(sheet, lastAction, getAllTasks(sheet), f.call.arg.tasks,
                         f.call.arg.userName, now, Today)
     IN  Resume(p, r, r.ret)

AddTasksResume(p) ==
  /\ Suspended(p, "add")
  /\ LET f == inflight[p]
         r == AddTasksOp(sheet, lastAction, f.tasks, f.call.arg.tasks,
                         f.call.arg.userName, now, Today)
     IN  Resume(p, r, r.ret)

CompleteTaskResume(p) ==
  /\ Suspended(p, "complete")
  /\ LET f == inflight[p]
         r == CompleteTaskOp(sheet, lastAction, f.tasks, f.call.arg.taskName, now)
     IN  Resume(p, r, [task |-> r.ret])

DeleteTaskResume(p) ==
  /\ Suspended(p, "delete")
  /\ LET f == inflight[p]
         r == DeleteTaskOp(sheet, lastAction, f.tasks, f.call.arg.taskName, now)
     IN  Resume(p, r, [task |-> r.ret])

UpdateTaskResume(p) ==
  /\ Suspended(p, "update")
  /\ LET f == inflight[p]
         r == UpdateTaskOp(sheet, lastAction, f.tasks, f.call.arg.taskName,
                           f.call.arg.updates, Today)
     IN  Resume(p, r, [found |-> r.ret])

RemoveDuplicatesResume(p) ==
  /\ Suspended(p, "reconcile")
  /\ LET r == RemoveDuplicatesOp(sheet, lastAction, inflight[p].tasks)
     IN  Resume(p, r, [n |-> r.ret])

NextConc ==
  \/ \E p \in Procs, c \in ConcCalls : ReadTasks(p, c)
  \/ \E p \in Procs : AddTasksResume(p)
  \/ \E p \in Procs : CompleteTaskResume(p)
  \/ \E p \in Procs : DeleteTaskResume(p)
  \/ \E p \in Procs : UpdateTaskResume(p)
  \/ \E p \in Procs : RemoveDuplicatesResume(p)

SpecConc == Init /\ [][NextConc]_vars

\* --------------------------------------------------- duplicate identity

\* ------------------------------------------------------ the src/bot.js variant
\* src/bot.js keeps the same sheet layout but its own store functions: its
\* getAllTasks maps every returned row, its removeDuplicates keys by text,
\* location and schedule, and its addTasks appends.

\* getAllTasks of src/bot.js: every row values.get returns becomes a task.
BotGetAllTasks(sh) == [i \in 1..(LastUsedRow(sh, MaxRow) - 1) |-> TaskOfRow(sh, i + 1)]

\* The key of the seen map in removeDuplicates of src/bot.js.
BotDuplicateKey(task) ==
  Trim(ToLowerCase(task.task)) \o "_" \o task.location \o "_" \o task.when

RECURSIVE BotScanDuplicates(_, _, _)
\* The forEach of removeDuplicates of src/bot.js: the rows pushed to toDelete.
BotScanDuplicates(tasks, seen, toDelete) ==
  IF tasks = <<>> THEN toDelete
  ELSE LET task == Head(tasks) IN
       IF task.status = "done" THEN BotScanDuplicates(Tail(tasks), seen, toDelete)
       ELSE IF BotDuplicateKey(task) \in seen
              THEN BotScanDuplicates(Tail(tasks), seen, Append(toDelete, task.row))
              ELSE BotScanDuplicates(Tail(tasks), seen \cup {BotDuplicateKey(task)}, toDelete)

BotRemoveDuplicatesOp(sh, tasks) ==
  LET toDelete == SortDescending(BotScanDuplicates(tasks, {}, <<>>)) IN
  [sheet |-> ClearRows(sh, toDelete), ret |-> Len(toDelete)]

\* The duplicate check of addTasks of src/bot.js against its snapshot.
BotExists(existingTasks, task) ==
  \E i \in 1..Len(existingTasks) :
     /\ ToLowerCase(existingTasks[i].task) = ToLowerCase(task.task)
     /\ existingTasks[i].status # "done"

\* The row addTasks of src/bot.js pushes to newTasks for a candidate.
BotNewRow(task, userName, today) ==
  [date |-> ISODate(today), person |-> userName, task |-> task.task,
   location |-> task.location, when |-> task.when,
   category |-> OrElse(task.category, "general"), status |-> "pending"]

\* values.append to A:G: the rows go below the last row that holds a value.
BotAppend(sh, rows) == UpdateRange(sh, LastUsedRow(sh, MaxRow) + 1, rows)

BotAddTasksOp(sh, existingTasks, tasks, userName, today) ==
  LET kept == SelectSeq(tasks, LAMBDA task : ~BotExists(existingTasks, task))
      newTasks == [i \in 1..Len(kept) |-> BotNewRow(kept[i], userName, today)]
  IN  [sheet |-> IF Len(newTasks) > 0 THEN BotAppend(sh, newTasks) ELSE sh,
       ret |-> [added |-> Len(newTasks), duplicates |-> Len(tasks) - Len(newTasks)]]

\* formatTaskList of src/bot.js: one bullet per task that is not done, with the
\* text of the task, under the count of these tasks.
BotFormatTaskList(tasks) ==
  LET active == SelectSeq(tasks, LAMBDA t : t.status # "done") IN
  IF Len(active) = 0 THEN [msg |-> MsgAllDone, count |-> 0, bullets |-> <<>>]
  ELSE [msg |-> "Du hast <count> Aufgaben:", count |-> Len(active),
        bullets |-> [i \in 1..Len(active) |-> active[i].task]]

\* The add candidates and batches of SpecBot: up to three candidates.
BotCandidates == {Cand("a", "", "", "", ""), Cand("b", "", "", "", "")}

BotBatches ==
  {<<x>> : x \in BotCandidates} \cup {<<x, y>> : x \in BotCandidates, y \in BotCandidates}
    \cup {<<x, x, y>> : x \in BotCandidates, y \in BotCandidates}

\* The sheet and the value returned replace those of the state; src/bot.js has
\* no undo slot.
BotApply(name, arg, r) == Apply(name, arg, [sheet |-> r.sheet, lastAction |-> lastAction], r.ret)

BotAddTasks(tasks, userName) ==
  /\ LastUsedRow(sheet, MaxRow) + Len(tasks) <= MaxRow
  /\ BotApply("add", [tasks |-> tasks, userName |-> userName],
              BotAddTasksOp(sheet, BotGetAllTasks(sheet), tasks, userName, Today))

BotCompleteTask(taskName) ==
  LET tasks == BotGetAllTasks(sheet)
      i == FindTask(tasks, taskName)
  IN  BotApply("complete", [taskName |-> taskName],
               IF i # 0
                 THEN [sheet |-> UpdateStatusCell(sheet, tasks[i].row, "done"),
                       ret |-> [task |-> tasks[i].task]]
                 ELSE [sheet |-> sheet, ret |-> [task |-> Null]])

BotRemoveDuplicates ==
  LET r == BotRemoveDuplicatesOp(sheet, BotGetAllTasks(sheet)) IN
  BotApply("reconcile", None, [sheet |-> r.sheet, ret |-> [n |-> r.ret]])

BotShowTasks ==
  BotApply("show", None, [sheet |-> sheet, ret |-> BotFormatTaskList(BotGetAllTasks(sheet))])

\* The store functions of src/bot.js, called one after the other.
NextBot ==
  \/ \E tasks \in BotBatches, userName \in UserNames : BotAddTasks(tasks, userName)
  \/ \E taskName \in {"a", "b"} : BotCompleteTask(taskName)
  \/ BotRemoveDuplicates
  \/ BotShowTasks

SpecBot == Init /\ [][NextBot]_vars

\* A sheet row that holds an active task, as getAllTasks reads it.
IsActiveRow(sh, r) == HasTaskText(TaskOfRow(sh, r)) /\ TaskOfRow(sh, r).status # "done"

\* The duplicate-identity tuple: (normalized text, assignee, location, schedule).
IdentityTuple(sh, r) ==
  <<Trim(ToLowerCase(sh[r].task)), sh[r].person, sh[r].location, sh[r].when>>

\* No two active tasks of the sheet share the identity tuple.
NoDuplicateActive(sh) ==
  \A r1, r2 \in Rows :
     (r1 < r2 /\ IsActiveRow(sh, r1) /\ IsActiveRow(sh, r2))
        => IdentityTuple(sh, r1) # IdentityTuple(sh, r2)

\* The active rows of the sheet that carry the identity tuple of row r.
Occurrences(sh, r) ==
  {q \in Rows : IsActiveRow(sh, q) /\ IdentityTuple(sh, q) = IdentityTuple(sh, r)}

\* The rows a step changed.
ChangedRows == {r \in Rows : sheet'[r] # sheet[r]}

\* C1: for every batch submitted to addTasks on a store without duplicate active
\* tasks, no two active tasks share the identity tuple (trimmed lower-case text,
\* assignee, location, schedule) after the add, candidates of one batch included.
C1_AddLeavesNoDuplicates ==
  [][(op'.name = "add" /\ NoDuplicateActive(sheet)) => NoDuplicateActive(sheet')]_vars

\* C2: after removeDuplicates no two active tasks share the identity tuple, of
\* every tuple with several active occurrences the lowest row is the one that
\* remains, and the returned count is the number of rows cleared.
C2_ReconcileKeepsFirstOccurrence ==
  [][op'.name = "reconcile" =>
       /\ NoDuplicateActive(sheet')
       /\ \A r \in Rows :
            (IsActiveRow(sheet, r) /\ Cardinality(Occurrences(sheet, r)) > 1)
               => \E q \in Occurrences(sheet, r) :
                     /\ \A p \in Occurrences(sheet, r) : q <= p
                     /\ sheet'[q] = sheet[q]
                     /\ \A p \in Occurrences(sheet, r) \ {q} : sheet'[p] = BlankRow
       /\ op'.ret.n = Cardinality(ChangedRows)]_vars

\* C3: removeDuplicates is idempotent: called twice in a row with no operation
\* in between, the second call returns 0 and clears no row.
C3_ReconcileIdempotent ==
  [][(op.name = "reconcile" /\ op'.name = "reconcile")
       => (op'.ret.n = 0 /\ sheet' = sheet)]_vars

\* A reconcile has just cleared a duplicate that lay between two occupied rows.
C3_Witness ==
  /\ op.name = "reconcile"
  /\ op.ret.n > 0
  /\ \E r \in Rows : sheet[r] = BlankRow /\ 2 < r /\ r < LastUsedRow(sheet, MaxRow)

\* Some task of the sheet with the given status test contains the fragment.
SomeMatch(sh, taskName, wantDone) ==
  \E r \in Rows :
     /\ HasTaskText(TaskOfRow(sh, r))
     /\ (TaskOfRow(sh, r).status = "done") = wantDone
     /\ Includes(ToLowerCase(sh[r].task), ToLowerCase(taskName))

\* C5: once a task is done it is unreachable by name: completeTask or deleteTask
\* with a fragment that only done tasks contain returns null and changes neither
\* a row nor the undo slot.
C5_DoneTaskUnreachableByName ==
  [][(/\ op'.name \in {"complete", "delete"}
      /\ SomeMatch(sheet, op'.arg.taskName, TRUE)
      /\ ~SomeMatch(sheet, op'.arg.taskName, FALSE))
        => (op'.ret.task = Null /\ sheet' = sheet /\ lastAction' = lastAction)]_vars

\* completeTask marked a task done, and a later deleteTask with a fragment of
\* that task's text found nothing.
C5_Witness ==
  /\ op.name = "delete"
  /\ op.ret.task = Null
  /\ lastAction.type = "complete"
  /\ Includes(ToLowerCase(lastAction.task), ToLowerCase(op.arg.taskName))
  /\ \E r \in Rows : sheet[r].task = lastAction.task /\ sheet[r].status = "done"

\* ------------------------------------------------------------- undo claims

\* The undo slot holds a record.
HasRecord == lastAction # NoAction

\* Milliseconds since the record of the slot was written.
RecordAge == now - lastAction.timestamp

\* C6: undoLastAction called more than 5 minutes after the timestamp of the
\* recorded action returns the expired message and changes no row, whatever the
\* type of the record; at or before 5 minutes the record is not treated as expired.
C6_UndoExpiry ==
  [][(op'.name = "undo" /\ HasRecord) =>
       /\ RecordAge > 5 * 60 * 1000 => (op'.ret.msg = MsgExpired /\ sheet' = sheet)
       /\ RecordAge <= 5 * 60 * 1000 => op'.ret.msg # MsgExpired]_vars

\* An undo has just refused an add record that is over five minutes old, with a
\* task it recorded still active.
C6_Witness ==
  /\ op.name = "undo"
  /\ op.ret.msg = MsgExpired
  /\ lastAction.type = "add"
  /\ RecordAge > 5 * 60 * 1000
  /\ \E r \in Rows : IsActiveRow(sheet, r) /\ sheet[r].task = lastAction.tasks[1]

\* An undo step that finds a live record of the given types.
UndoOfLive(types) ==
  /\ op'.name = "undo"
  /\ HasRecord
  /\ RecordAge <= 5 * 60 * 1000
  /\ lastAction.type \in types

\* C7: undo of a live add record attempts deleteTask once per recorded text,
\* reports the number of deletions that succeeded and leaves the slot empty, so
\* an undo issued right after reports nothing to undo and deletes nothing.
C7_UndoAdd ==
  [][/\ UndoOfLive({"add"}) =>
          /\ lastAction' = NoAction
          /\ \A r \in ChangedRows : IsActiveRow(sheet, r) /\ sheet'[r] = BlankRow
          /\ Cardinality(ChangedRows) <= Len(lastAction.tasks)
          /\ op'.ret.count = Cardinality(ChangedRows)
          /\ op'.ret.msg = (IF ChangedRows # {} THEN MsgDeleted ELSE MsgNotFound)
          /\ \/ Cardinality(ChangedRows) = Len(lastAction.tasks)
             \/ \E i \in 1..Len(lastAction.tasks) :
                   ~SomeMatch(sheet', lastAction.tasks[i], FALSE)
     /\ (op.name = "undo" /\ op.ret.msg \in {MsgDeleted, MsgNotFound} /\ op'.name = "undo")
          => (op'.ret.msg = MsgExpired /\ sheet' = sheet)]_vars

\* An undo has just deleted both tasks of a two-task add and emptied the slot.
C7_Witness ==
  /\ op.name = "undo"
  /\ op.ret.msg = MsgDeleted
  /\ op.ret.count = 2
  /\ lastAction = NoAction

\* C8: with a live record of type complete or delete, undo returns the fixed
\* not-reversible message, changes no row and leaves the record in place.
C8_UndoIrreversible ==
  [][UndoOfLive({"complete", "delete"}) =>
       /\ op'.ret.msg = (IF lastAction.type = "complete"
                           THEN MsgCompleteIrreversible ELSE MsgDeleteIrreversible)
       /\ sheet' = sheet
       /\ lastAction' = lastAction]_vars

\* An undo has just answered not-reversible and the complete record is still there.
C8_Witness ==
  /\ op.name = "undo"
  /\ op.ret.msg = MsgCompleteIrreversible
  /\ lastAction.type = "complete"
  /\ RecordAge <= 5 * 60 * 1000

\* A call that changed the store: an add that inserted, a complete, delete or
\* update that found its task.
Succeeded(c) ==
  \/ c.name = "add" /\ c.ret.count > 0
  \/ c.name \in {"complete", "delete"} /\ c.ret.task # Null
  \/ c.name = "update" /\ c.ret.found

\* C9: every mutating operation overwrites the undo record: after a successful
\* add, complete, delete or update the slot describes that operation, so undo
\* never reverts an add that was followed by a later successful mutation.
C9_SlotDescribesLastMutation ==
  [][/\ Succeeded(op') => (lastAction'.type = op'.name /\ lastAction'.timestamp = now)
     /\ (op'.name = "undo" /\ op.name \in {"complete", "delete", "update"} /\ Succeeded(op))
          => sheet' = sheet]_vars

\* ------------------------------------------------------ concurrency claims

\* C4: a task's status only moves pending -> done, also when concurrent requests
\* interleave at their store calls: a row that holds a done task never holds
\* that same task with status pending afterwards.
C4_StatusOneWay ==
  [][\A r \in Rows :
       (sheet[r].status = "done" /\ sheet'[r].task = sheet[r].task)
          => sheet'[r].status # "pending"]_vars

\* ------------------------------------------------------- assignment claims

\* The rows an add step wrote that hold the text of a candidate.
RowsWrittenFor(task) == {r \in ChangedRows : sheet'[r].task = Trim(task.task)}

\* The candidate has no active task of its text and the shared assignee yet.
IsNewShared(task) ==
  \A r \in Rows :
     IsActiveRow(sheet, r) /\ ToLowerCase(sheet[r].task) = ToLowerCase(task.task)
        => sheet[r].person # "Beide"

\* C10: an add candidate without assignee is stored with assignee 'Beide'; its
\* category is 'both' when the candidate's category was absent or 'general',
\* and another explicit category is kept.
C10_SharedDefault ==
  [][op'.name = "add" =>
       \A i \in 1..Len(op'.arg.tasks) :
          LET task == op'.arg.tasks[i] IN
          (task.assignedTo = "" /\ Trim(task.task) # "") =>
             /\ IsNewShared(task) => RowsWrittenFor(task) # {}
             /\ \A r \in RowsWrittenFor(task) :
                   /\ sheet'[r].person = "Beide"
                   /\ sheet'[r].category =
                        (IF task.category \in {"", "general"} THEN "both" ELSE task.category)]_vars

\* An add has just stored two candidates without assignee: the one with
\* category 'general' as 'both', the one with 'shopping' unchanged.
C10_Witness ==
  /\ op.name = "add"
  /\ op.ret.count = 2
  /\ op.arg.tasks = <<Cand("b", "", "", "", "general"), Cand("c", "", "", "", "shopping")>>
  /\ \E r1, r2 \in Rows :
        /\ sheet[r1].task = "b" /\ sheet[r1].person = "Beide" /\ sheet[r1].category = "both"
        /\ sheet[r2].task = "c" /\ sheet[r2].person = "Beide" /\ sheet[r2].category = "shopping"

\* The first-person pronouns of the name map.
Pronouns == {"ich", "meine", "mir", "mich"}

\* C11: an add candidate whose assignee mention is a first-person pronoun (any
\* case) is stored with the requester's name as assignee.
C11_PronounIsRequester ==
  [][op'.name = "add" =>
       \A i \in 1..Len(op'.arg.tasks) :
          LET task == op'.arg.tasks[i] IN
          (Trim(ToLowerCase(task.assignedTo)) \in Pronouns /\ Trim(task.task) # "") =>
             \A r \in RowsWrittenFor(task) : sheet'[r].person = op'.arg.userName]_vars

\* The identity tuple of an add candidate, as addTasks would store it.
CandidateTuple(task, userName) ==
  <<Trim(ToLowerCase(task.task)), AssignedPerson(task, userName), task.location,
    parseDate(task.when, Today)>>

\* Some active task of the sheet has the identity tuple of the candidate.
DuplicatesActive(sh, task, userName) ==
  \E r \in Rows : IsActiveRow(sh, r) /\ IdentityTuple(sh, r) = CandidateTuple(task, userName)

\* C12: an add whose candidates all duplicate an existing active task (same
\* text, assignee, location and schedule) returns count 0, writes no row and
\* does not replace the undo record.
C12_DuplicateAddIsNoop ==
  [][(/\ op'.name = "add"
      /\ op'.arg.tasks # <<>>
      /\ \A i \in 1..Len(op'.arg.tasks) :
            DuplicatesActive(sheet, op'.arg.tasks[i], op'.arg.userName))
        => (op'.ret.count = 0 /\ sheet' = sheet /\ lastAction' = lastAction)]_vars

\* C13: add treats a candidate as a duplicate only when an active task shares
\* the whole identity tuple: a candidate with non-empty text whose tuple differs
\* from that of every active task in some component is inserted.
C13_DistinctTupleIsInserted ==
  [][op'.name = "add" =>
       \A i \in 1..Len(op'.arg.tasks) :
          LET task == op'.arg.tasks[i] IN
          (Trim(task.task) # "" /\ ~DuplicatesActive(sheet, task, op'.arg.userName)) =>
             \E r \in ChangedRows :
                IdentityTuple(sheet', r) = CandidateTuple(task, op'.arg.userName)]_vars

\* ------------------------------------------------------------ date claims

\* The weekday numbers of the German weekday names (0 = Sunday).
WeekdayNames ==
  [montag |-> 1, dienstag |-> 2, mittwoch |-> 3, donnerstag |-> 4, freitag |-> 5,
   samstag |-> 6, sonntag |-> 0]

\* C17: for every weekday d and every reference day t, getNextWeekday returns a
\* day 1 to 7 days after t whose weekday is d, and exactly t + 7 when t is
\* itself a d; parseDate resolves a weekday name to the date of that day.
C17_NextWeekdayStrictlyAfter ==
  /\ op.name = "getNextWeekday" =>
        /\ op.ret.day - op.arg.today \in 1..7
        /\ GetDay(op.ret.day) = op.arg.dayOfWeek
        /\ GetDay(op.arg.today) = op.arg.dayOfWeek => op.ret.day = op.arg.today + 7
  /\ (op.name = "parseDate" /\ Trim(ToLowerCase(op.arg.dateStr)) \in DOMAIN WeekdayNames) =>
        \E k \in 1..7 :
           /\ op.ret.date = ISODate(op.arg.today + k)
           /\ GetDay(op.arg.today + k) = WeekdayNames[Trim(ToLowerCase(op.arg.dateStr))]
           /\ GetDay(op.arg.today) = GetDay(op.arg.today + k) => k = 7

\* "Montag" has just been resolved on a Monday, to the date seven days later.
C17_Witness ==
  /\ op.name = "parseDate"
  /\ op.arg.dateStr = "Montag"
  /\ GetDay(op.arg.today) = 1
  /\ op.ret.date = ISODate(op.arg.today + 7)

\* ------------------------------------------------------- bulk delete claims

\* The active rows of a sheet.
ActiveRows(sh) == {r \in Rows : IsActiveRow(sh, r)}

ShownRows(reply) == {reply.shown[i].row : i \in 1..Len(reply.shown)}

\* The active rows of the sheet whose assignee is the given name.
ActiveRowsOf(person) == {r \in Rows : IsActiveRow(sheet, r) /\ sheet[r].person = person}

\* The filter names a specific person, not the shared marker.
NamesPerson(filterPerson) ==
  filterPerson # "" /\ normalizePerson(filterPerson) \notin {Null, "Beide"}

\* C14: a listing filtered by a specific person P selects exactly the active
\* tasks assigned to P together with the active shared tasks; with excludeShared
\* it selects a subset of these without any shared task; filtered by the shared
\* marker it selects only shared tasks. A location filter on top only narrows
\* the selection.
C14_PersonFilter ==
  [][op'.name = "show" =>
       LET P == op'.arg.person
           sel == ShownRows(op'.ret)
           mine == ActiveRowsOf(normalizePerson(P))
           shared == ActiveRowsOf("Beide")
       IN  /\ (NamesPerson(P) /\ ~op'.arg.excludeShared) =>
                 /\ sel \subseteq mine \cup shared
                 /\ op'.arg.location = "" => sel = mine \cup shared
           /\ (NamesPerson(P) /\ op'.arg.excludeShared) =>
                 /\ sel \subseteq mine
                 /\ sel \cap shared = {}
                 /\ op'.arg.location = "" => sel = mine
           /\ (P # "" /\ normalizePerson(P) = "Beide") =>
                 /\ sel \subseteq shared
                 /\ op'.arg.location = "" => sel = shared]_vars

\* A listing for Jeremy has just shown Jeremy's task and the shared task, and
\* the sheet holds both.
C14_Witness ==
  /\ op.name = "show"
  /\ op.arg = [person |-> "jeremy", location |-> "", excludeShared |-> FALSE]
  /\ op.ret.msg = HeadPerson
  /\ op.ret.count = 2
  /\ \E i, j \in 1..Len(op.ret.shown) :
        op.ret.shown[i].person = "Jeremy" /\ op.ret.shown[j].person = "Beide"

\* The active rows the person filter of a listing selects on its own.
PersonSelection(filterPerson, excludeShared) ==
  IF normalizePerson(filterPerson) = "Beide" THEN ActiveRowsOf("Beide")
  ELSE IF excludeShared THEN ActiveRowsOf(normalizePerson(filterPerson))
  ELSE ActiveRowsOf(normalizePerson(filterPerson)) \cup ActiveRowsOf("Beide")

\* C15: when a listing with a person filter and a location filter finds active
\* tasks but the two filters together select none, the reply names the filter
\* that emptied the selection: the person when the person filter alone selects
\* nothing, the location when the location filter removed what it selected.
C15_EmptyReplyNamesFilter ==
  [][(/\ op'.name = "show"
      /\ op'.arg.person # "" /\ normalizePerson(op'.arg.person) # Null
      /\ op'.arg.location # ""
      /\ \E r \in Rows : IsActiveRow(sheet, r)
      /\ op'.ret.shown = <<>>)
        => IF PersonSelection(op'.arg.person, op'.arg.excludeShared) = {}
             THEN /\ op'.ret.msg \in {MsgNoneFor, MsgNoPersonalFor}
                  /\ op'.ret.person = op'.arg.person
             ELSE /\ op'.ret.msg = MsgNoneAt
                  /\ op'.ret.location = op'.arg.location]_vars

\* ------------------------------------------------------- handler claims

\* The calls to the language model and to the store in the trace of a request.
ReasoningCalls == {"createPlan", "handleAI", "evaluateResult"}

StoreCalls ==
  {"removeDuplicates", "getAllTasks", "addTasks", "completeTask", "deleteTask",
   "updateTask", "undoLastAction"}

\* The request made one of the given calls.
Made(trace, calls) == \E i \in 1..Len(trace) : trace[i] \in calls

\* The active rows whose text contains the fragment, case-insensitively.
RowsMatching(sh, fragment) ==
  {r \in Rows : IsActiveRow(sh, r) /\ Includes(ToLowerCase(sh[r].task), ToLowerCase(fragment))}

\* The text is a task fragment followed by a blank and the completion keyword k.
EndsWithKeyword(text, k) ==
  /\ Len(text) > Len(k) + 1
  /\ MatchesAt(text, Len(text) - Len(k) + 1, k)
  /\ CharAt(text, Len(text) - Len(k)) = " "

\* The fragment in front of the trailing keyword k.
FragmentBefore(text, k) == SubSeq(text, 1, Len(text) - Len(k) - 1)

\* C18: with the reasoning capability unavailable, a text made of a fragment
\* that matches an active task and a completion keyword (and without a list
\* keyword, which has priority) makes the fallback mark a matching task done
\* and reply with its text, without any call to the reasoning capability.
C18_FallbackCompletes ==
  [][\A k \in DoneKeywords :
       LET text == op'.arg.text
           fragment == FragmentBefore(text, k)
       IN  (/\ op'.name = "message"
            /\ config.sheets /\ ~config.openai /\ op'.arg.store = "up"
            /\ EndsWithKeyword(text, k)
            /\ fragment = Trim(fragment) /\ fragment # ""
            /\ ~MatchesAny(fragment, DoneKeywords)
            /\ ~MatchesAny(text, ListKeywords)
            /\ RowsMatching(sheet, fragment) # {})
              => /\ \E r \in RowsMatching(sheet, fragment) :
                      /\ sheet' = [sheet EXCEPT ![r].status = "done"]
                      /\ op'.ret.replies = <<TextReply(MsgCompleted, sheet[r].task)>>
                 /\ ~Made(op'.ret.trace, ReasoningCalls)]_vars

\* Without the language model, "b erledigt" has just completed the task "ab".
C18_Witness ==
  /\ op.name = "message"
  /\ ~config.openai
  /\ op.arg.text = "b erledigt"
  /\ op.ret.replies = <<TextReply(MsgCompleted, "ab")>>
  /\ lastAction.type = "complete"
  /\ \E r \in Rows : sheet[r].task = "ab" /\ sheet[r].status = "done"


\* C19: with the sheets client absent, every message with text (the commands
\* included) gets the fixed not-configured reply and nothing else; the request
\* makes no store call and no reasoning call, and leaves the store and the
\* undo record as they were.
C19_UnconfiguredStoreReply ==
  [][(op'.name = "message" /\ ~config.sheets /\ Trim(op'.arg.text) # "")
       => /\ op'.ret.replies = <<TextReply(MsgNotConfigured, "")>>
          /\ ~Made(op'.ret.trace, StoreCalls)
          /\ ~Made(op'.ret.trace, ReasoningCalls)
          /\ lastAction' = lastAction
          /\ sheet' = sheet]_vars

\* "/start" has just been answered with the not-configured reply although the
\* reasoning capability is there and the store holds tasks.
C19_Witness ==
  /\ op.name = "message" /\ ~config.sheets /\ config.openai
  /\ op.arg.text = "/start"
  /\ op.ret.replies = <<TextReply(MsgNotConfigured, "")>>
  /\ sheet = PrefilledSheet

\* The replies of a request that took the store for empty.
AsIfEmptyReplies == {MsgAllDone, MsgNotFoundName, MsgAddedOne, MsgAddedMany}

\* C20: when the sheets client is there but the store cannot be reached, so
\* that the read of the task rows fails, the request is answered with the
\* error reply, and with none of the replies of an empty task list (all done,
\* not found, an add confirmation).
C20_UnreachableStoreReply ==
  [][(/\ op'.name = "message" /\ config.sheets
      /\ op'.arg.store = "down"
      /\ Made(op'.ret.trace, {"getAllTasks"}))
       => /\ Len(op'.ret.replies) = 1
          /\ op'.ret.replies[1].msg = MsgError
          /\ \A i \in 1..Len(op'.ret.replies) :
                op'.ret.replies[i].msg \notin AsIfEmptyReplies]_vars

\* How often the request called the function.
Count(trace, name) == Cardinality({i \in 1..Len(trace) : trace[i] = name})

\* What the single-stage handler does with the request in the current state,
\* after the handler's removeDuplicates.
SingleStage(req) ==
  handleAI(RemoveDuplicatesOp(sheet, lastAction, getAllTasks(sheet)).sheet, lastAction,
           getAllTasks(RemoveDuplicatesOp(sheet, lastAction, getAllTasks(sheet)).sheet),
           req.ai, req.store, req.userName, now)

IsBlankCandidate(task) == Trim(task.task) = ""

\* The positions of the batch whose candidate has text and equals no active
\* task of the store in text and assignee.
Insertable(sh, tasks, userName) ==
  {i \in 1..Len(tasks) :
     /\ ~IsBlankCandidate(tasks[i])
     /\ ~\E r \in Rows :
           /\ IsActiveRow(sh, r)
           /\ ToLowerCase(sh[r].task) = ToLowerCase(tasks[i].task)
           /\ sh[r].person = AssignedPerson(tasks[i], userName)}

\* C22: a candidate without text or with only blanks is skipped and does not
\* fail the batch: the other candidates that are no duplicates are inserted
\* with their text, and the returned count and the undo record cover exactly
\* them (the undo record is left alone when nothing was inserted).
C22_BlankCandidateSkipped ==
  [][(/\ op'.name = "add"
      /\ \E i \in 1..Len(op'.arg.tasks) : IsBlankCandidate(op'.arg.tasks[i]))
       => LET ins == Insertable(sheet, op'.arg.tasks, op'.arg.userName) IN
          /\ op'.ret.count = Cardinality(ins)
          /\ Cardinality(ChangedRows) = Cardinality(ins)
          /\ \A i \in ins : \E r \in ChangedRows :
                /\ sheet'[r].task = Trim(op'.arg.tasks[i].task)
                /\ sheet'[r].status = "pending"
          /\ \A r \in ChangedRows : sheet'[r].task # "" /\ sheet[r].task = ""
          /\ IF ins = {} THEN lastAction' = lastAction
             ELSE /\ lastAction'.type = "add"
                  /\ Len(lastAction'.tasks) = Cardinality(ins)
                  /\ \A i \in ins : \E k \in 1..Len(lastAction'.tasks) :
                        lastAction'.tasks[k] = Trim(op'.arg.tasks[i].task)]_vars

\* A batch of a blank candidate and the task "a" has just stored "a" alone.
C22_Witness ==
  /\ op.name = "add"
  /\ op.arg.tasks = <<Cand(" ", "Moana", "", "", ""), Cand("a", "", "", "", "")>>
  /\ op.ret.count = 1
  /\ lastAction.tasks = <<"a">>
  /\ Cardinality({r \in Rows : sheet[r].task # ""}) = 1

\* C23: a completeTask, deleteTask or updateTask whose name is contained in no
\* active task returns the not-found value (null, null, false), changes no row
\* of the store and leaves the undo record as it was.
C23_NotFoundIsValue ==
  [][(/\ op'.name \in {"complete", "delete", "update"}
      /\ RowsMatching(sheet, op'.arg.taskName) = {})
       => /\ op'.name \in {"complete", "delete"} => op'.ret = [task |-> Null]
          /\ op'.name = "update" => op'.ret = [found |-> FALSE]
          /\ sheet' = sheet
          /\ lastAction' = lastAction]_vars

\* A completeTask has just returned null for a name that only a done task
\* carries, with the undo record of that task's completion still in place.
C23_Witness ==
  /\ op.name = "complete" /\ op.ret = [task |-> Null]
  /\ RowsMatching(sheet, op.arg.taskName) = {}
  /\ \E r \in Rows : /\ sheet[r].status = "done"
                      /\ Includes(ToLowerCase(sheet[r].task), ToLowerCase(op.arg.taskName))
  /\ lastAction.type = "complete"

\* The request was left to the fallback rules: the language model is absent
\* or its completion failed, the store is there and the text is no command.
LeftToFallback(req) ==
  /\ config.sheets /\ req.store = "up"
  /\ ~config.openai \/ req.ai.kind = "fail"
  /\ Trim(req.text) \notin {"", "/start", "/help", "/debug"}

\* Words for updating and renaming a task (the third rule of the claim).
UpdateKeywords == {"update", "rename", "aendere", "umbenennen"}

\* The functions the fallback rules call.
RuleCalls == {"formatTaskList", "completeTask", "undoLastAction"}

\* The calls of the request among the functions of the fallback rules.
RuleCallsMade(trace) == {trace[i] : i \in 1..Len(trace)} \cap RuleCalls

\* C24 as stated: the fallback rules are, in this priority, list keywords,
\* completion keywords, update/rename keywords and the default message, and
\* only the first matching rule runs; so a text with none of these keywords
\* gets the default message and changes nothing.
C24_FallbackPriority ==
  [][(/\ op'.name = "message" /\ LeftToFallback(op'.arg)
      /\ ~MatchesAny(op'.arg.text, ListKeywords)
      /\ ~MatchesAny(op'.arg.text, DoneKeywords)
      /\ ~MatchesAny(op'.arg.text, UpdateKeywords))
       => /\ op'.ret.replies = <<TextReply(MsgDefault, Trim(op'.arg.text))>>
          /\ lastAction' = lastAction
          /\ RuleCallsMade(op'.ret.trace) = {}]_vars

\* The store as the handler's removeDuplicates leaves it.
Reconciled == RemoveDuplicatesOp(sheet, lastAction, getAllTasks(sheet)).sheet

\* C24 amended: the fallback rules are, in this priority, list keywords,
\* completion keywords, undo keywords and the default message, and only the
\* first matching rule runs: a text with a list keyword is answered with the
\* list and changes nothing after the handler's removeDuplicates, whatever
\* other keywords it holds.
C24_FallbackPriorityAmended ==
  [][(op'.name = "message" /\ LeftToFallback(op'.arg))
       => LET text == op'.arg.text
              calls == RuleCallsMade(op'.ret.trace)
          IN  IF MatchesAny(text, ListKeywords)
                THEN /\ calls = {"formatTaskList"}
                     /\ Len(op'.ret.replies) = 1
                     /\ op'.ret.replies[1] =
                          ShowFiltered(getAllTasks(Reconciled),
                                       ListFilters(Trim(text), op'.arg.userName))
                     /\ sheet' = Reconciled /\ lastAction' = lastAction
              ELSE IF MatchesAny(text, DoneKeywords)
                THEN /\ calls \subseteq {"completeTask"}
                     /\ \A i \in 1..Len(op'.ret.replies) :
                           op'.ret.replies[i].msg \in {MsgCompleted, MsgNotFoundName}
              ELSE IF MatchesAny(text, UndoKeywords)
                THEN /\ calls = {"undoLastAction"}
                     /\ Len(op'.ret.replies) = 1
                     /\ op'.ret.replies[1].msg \notin {MsgDefault, MsgCompleted, MsgNotFoundName}
              ELSE /\ calls = {}
                   /\ op'.ret.replies = <<TextReply(MsgDefault, Trim(text))>>
                   /\ sheet' = Reconciled /\ lastAction' = lastAction]_vars

\* "liste done", a text with a list and a completion keyword, has just been
\* answered with the list of the two active tasks, which are still active.
C24_Witness ==
  /\ op.name = "message" /\ ~config.openai /\ config.sheets
  /\ op.arg.text = "liste done" /\ op.arg.store = "up"
  /\ Len(op.ret.replies) = 1 /\ op.ret.replies[1].msg = HeadAll
  /\ RuleCallsMade(op.ret.trace) = {"formatTaskList"}
  /\ Cardinality({r \in Rows : IsActiveRow(sheet, r)}) = 2

\* Every call of a comes before every call of b.
Before(trace, a, b) ==
  \A i, j \in 1..Len(trace) : (trace[i] = a /\ trace[j] = b) => i < j

\* The functions that change the store on behalf of the resolved intent.
MutationCalls == {"addTasks", "completeTask", "deleteTask", "updateTask", "undoLastAction"}

\* The steps of intent resolution and what it selects.
ResolutionCalls == ReasoningCalls \cup MutationCalls \cup {"formatTaskList"}

\* C25: within one request removeDuplicates comes first and the read of the
\* snapshot second; intent resolution and the function it selects come after
\* the read, the selected function after the start of handleAI and before
\* evaluateResult; addTasks, completeTask and deleteTask change the undo record
\* only when their write to the store arrived; the reply is the last step.
C25_StepOrder ==
  [][(op'.name = "message" /\ config.sheets /\ Trim(op'.arg.text) # "")
       => LET trace == op'.ret.trace IN
          /\ Len(trace) >= 2
          /\ trace[1] = "removeDuplicates" /\ trace[2] = "getAllTasks"
          /\ \A i \in 3..Len(trace) : trace[i] \in ResolutionCalls \cup {"sendMessage"}
          /\ \A f \in MutationCalls \cup {"formatTaskList"} :
                /\ Before(trace, "createPlan", f)
                /\ Before(trace, f, "evaluateResult")
          /\ Before(trace, "createPlan", "handleAI")
          /\ \A i \in 1..Len(trace) : trace[i] = "sendMessage" => i = Len(trace)
          /\ op'.ret.replies # <<>> => trace[Len(trace)] = "sendMessage"
          /\ (~Made(trace, {"undoLastAction"}) /\ lastAction' # lastAction)
                => /\ op'.arg.store # "down"
                   /\ Made(trace, {"addTasks", "completeTask", "deleteTask"})]_vars

\* An add selected by the language model has just gone through all steps.
C25_Witness ==
  /\ op.name = "message"
  /\ op.ret.trace = <<"removeDuplicates", "getAllTasks", "createPlan", "handleAI",
                      "addTasks", "evaluateResult", "sendMessage">>
  /\ lastAction.type = "add"
  /\ Len(op.ret.replies) = 1

\* C26: every message with text is answered with exactly one reply, on every
\* path of the handler: the commands, the result of the reasoning step, each
\* fallback rule (a completion keyword without a fragment included) and the
\* error path.
C26_ExactlyOneReply ==
  [][(op'.name = "message" /\ Trim(op'.arg.text) # "")
       => Len(op'.ret.replies) = 1]_vars

\* The request with the bot's mention taken out of its text.
WithoutMention(req) == [req EXCEPT !.text = Trim(ReplaceFirstFrom(req.text, 1, BotMention))]

\* C27: in a group conversation the mention of the bot is stripped before
\* intent resolution on both paths: the text handed to the reasoning step holds
\* no mention, and the request is answered and acts on the store as the same
\* request without the mention does, also when the fallback rules answer it.
C27_MentionStripped ==
  [][(/\ op'.name = "message" /\ config.sheets
      /\ op'.arg.isGroup /\ Includes(op'.arg.text, BotMention))
       => /\ op'.ret.prompt # Null => ~Includes(op'.ret.prompt, BotMention)
          /\ sheet' = HandleMessage(sheet, lastAction, config, WithoutMention(op'.arg), now).sheet
          /\ op'.ret.replies =
               HandleMessage(sheet, lastAction, config, WithoutMention(op'.arg), now).replies]_vars

\* The highest row that holds a task; the header row 1 when there is none.
HighestTaskRow(sh) ==
  IF \E r \in Rows : sh[r].task # ""
    THEN CHOOSE r \in Rows : sh[r].task # "" /\ \A q \in Rows : sh[q].task # "" => q <= r
    ELSE 1

\* C28: an add that inserts tasks writes them to the rows right after the
\* highest occupied row, n+1, n+2, ... for tasks up to row n and from row 2 on
\* for an empty store (the header is row 1), and overwrites no task row.
C28_AddRowPlacement ==
  [][(op'.name = "add" /\ op'.ret.count > 0)
       => /\ ChangedRows =
               (HighestTaskRow(sheet) + 1)..(HighestTaskRow(sheet) + op'.ret.count)
          /\ \A r \in ChangedRows : sheet[r].task = ""]_vars

\* C29: when the read of the store inside addTasks fails, the add writes
\* nothing: it does not take the store for empty, so that no task row is
\* overwritten and no active task is stored a second time.
C29_AddAfterFailedRead ==
  [][(/\ op'.name = "message" /\ config.sheets /\ config.openai
      /\ op'.arg.store = "readfail"
      /\ op'.arg.ai.kind = "tool" /\ op'.arg.ai.tool.name = "add_tasks")
       => /\ sheet' = sheet
          /\ lastAction' = lastAction]_vars

\* C30: evaluateResult only rewrites the reply: a request that called it
\* leaves the store and the undo record as handleAI left them, whether the
\* evaluation improved the reply, returned none or failed, and the reply is
\* the improved text or the result of handleAI.
C30_EvaluationFrame ==
  [][(/\ op'.name = "message" /\ op'.arg.store = "up"
      /\ Made(op'.ret.trace, {"evaluateResult"}))
       => /\ sheet' = SingleStage(op'.arg).sheet
          /\ lastAction' = SingleStage(op'.arg).lastAction
          /\ op'.ret.replies =
               <<IF op'.arg.eval = "improved" THEN TextReply(MsgImproved, "")
                 ELSE SingleStage(op'.arg).reply>>]_vars

\* A completion whose reply the evaluation rewrote has just left the task
\* done and its undo record in place.
C30_Witness ==
  /\ op.name = "message" /\ op.arg.eval = "improved"
  /\ Made(op.ret.trace, {"completeTask"}) /\ Made(op.ret.trace, {"evaluateResult"})
  /\ op.ret.replies = <<TextReply(MsgImproved, "")>>
  /\ lastAction.type = "complete"
  /\ \E r \in Rows : sheet[r].status = "done" /\ sheet[r].task = lastAction.task

\* The lowest row of a non-empty set of rows.
LowestRow(rs) == CHOOSE r \in rs : \A q \in rs : r <= q

\* The columns of a row that an update names, by the field of the update.
UpdateFields == {"person", "task", "location", "when", "category"}

\* C31: updateTask on a matched active task changes only the supplied fields:
\* creation date, status and row number stay, every field the update does not
\* supply keeps its value, no other row changes, and the call returns true
\* exactly when an active task matched.
C31_UpdateFrame ==
  [][op'.name = "update" =>
       /\ op'.ret.found = (RowsMatching(sheet, op'.arg.taskName) # {})
       /\ lastAction' = lastAction
       /\ RowsMatching(sheet, op'.arg.taskName) = {} => sheet' = sheet
       /\ RowsMatching(sheet, op'.arg.taskName) # {} =>
            /\ ChangedRows \subseteq {LowestRow(RowsMatching(sheet, op'.arg.taskName))}
            /\ \A r \in ChangedRows :
                 /\ sheet'[r].date = sheet[r].date
                 /\ sheet'[r].status = sheet[r].status
                 /\ \A f \in UpdateFields :
                      op'.arg.updates[f] = "" => sheet'[r][f] = sheet[r][f]]_vars

\* An update that supplied person and location has just rewritten a task
\* whose text is the one it was added with, next to another task.
C31_Witness ==
  /\ op.name = "update" /\ op.ret.found
  /\ op.arg.updates.person # "" /\ op.arg.updates.task = ""
  /\ \E r \in Rows :
       /\ sheet[r].person = op.arg.updates.person
       /\ sheet[r].location = op.arg.updates.location
       /\ sheet[r].task = "Ab" /\ sheet[r].status = "pending"
       /\ \E q \in Rows \ {r} : sheet[q].task # ""

\* An assignee as the data model allows it: present, no shared indicator other
\* than the marker itself and no first-person pronoun.
IsNormalizedAssignee(person) ==
  /\ person # ""
  /\ Trim(ToLowerCase(person)) \in SHARED_TASK_INDICATORS => person = SHARED_PERSON_VALUE
  /\ Trim(ToLowerCase(person)) \notin Pronouns

\* C32: after any sequence of adds and updates the stored assignee of every
\* task is normalized: never empty, never a raw shared indicator and never a
\* raw first-person pronoun.
C32_AssigneeNormalized ==
  \A r \in Rows : sheet[r].task # "" => IsNormalizedAssignee(sheet[r].person)

\* C33: completeTask picks, among the active tasks whose text contains the
\* fragment case-insensitively, the one in the lowest row and sets only that
\* row's status to done; deleteTask picks the same row and clears only it;
\* every other field and row stays.
C33_LowestRowSelected ==
  [][(op'.name \in {"complete", "delete"} /\ RowsMatching(sheet, op'.arg.taskName) # {})
       => /\ op'.ret.task = sheet[LowestRow(RowsMatching(sheet, op'.arg.taskName))].task
          /\ op'.name = "complete" =>
               sheet' = [sheet EXCEPT
                           ![LowestRow(RowsMatching(sheet, op'.arg.taskName))].status = "done"]
          /\ op'.name = "delete" =>
               sheet' = [sheet EXCEPT
                           ![LowestRow(RowsMatching(sheet, op'.arg.taskName))] = BlankRow]]_vars

\* A completeTask has just marked the lower of two matching tasks done: the
\* only done row lies below an active row that contains the fragment too.
C33_Witness ==
  /\ op.name = "complete" /\ op.ret.task # Null
  /\ \E r \in Rows :
       /\ sheet[r].status = "done" /\ sheet[r].task = op.ret.task
       /\ \A q \in Rows \ {r} : sheet[q].status # "done"
       /\ \E q \in Rows : q > r /\ q \in RowsMatching(sheet, op.arg.taskName)

\* The rows the add that has just returned inserted: addTasks writes after the
\* highest task row, so they are the op.ret.count highest rows that hold a task.
InsertedRows ==
  {r \in Rows : /\ sheet[r].task # ""
                /\ Cardinality({q \in Rows : q > r /\ sheet[q].task # ""}) < op.ret.count}

\* C34: an add followed directly by undo within the undo window is a round
\* trip: the undo clears exactly the rows the add inserted and changes no
\* other task.
C34_AddUndoRoundTrip ==
  [][(op.name = "add" /\ op.ret.count > 0 /\ UndoOfLive({"add"}))
       => /\ ChangedRows = InsertedRows
          /\ \A r \in InsertedRows : sheet'[r] = BlankRow]_vars

\* The sheet holds an active task with the text and the assignee of an entry
\* of addedTaskInfo.
IsPresent(sh, info) ==
  \E r \in Rows : IsActiveRow(sh, r) /\ sh[r].task = info.task /\ sh[r].person = info.person

\* The entries of addedTaskInfo a call of addTasks returned.
Confirmed(c) == {c.ret.addedInfo[i] : i \in 1..Len(c.ret.addedInfo)}

\* C35: when two add requests for different tasks have both returned, every
\* task either of them reported as added is an active row: no confirmed insert
\* is overwritten by the write of the other request.
C35_ConfirmedAddsSurvive ==
  [][(/\ op.name = "add" /\ op'.name = "add" /\ op'.arg # op.arg
      /\ \A p \in Procs : inflight'[p] = Idle)
       => \A info \in Confirmed(op) \cup Confirmed(op') : IsPresent(sheet', info)]_vars

\* C36: the row completeTask marks done holds, at the moment of the write, a
\* task whose text contains the fragment of the request, whatever deletes and
\* adds of other requests ran in between: a task placed into a reused row is
\* never marked done by a fragment it does not contain.
C36_CompletedRowMatches ==
  [][op'.name = "complete" =>
       \A r \in ChangedRows :
          Includes(ToLowerCase(sheet[r].task), ToLowerCase(op'.arg.taskName))]_vars

\* The snapshot of a suspended request holds no task with the text.
SnapshotLacks(f, text) ==
  \A j \in 1..Len(f.tasks) : ToLowerCase(f.tasks[j].task) # ToLowerCase(text)

\* C37: two concurrent adds of the same task identity can both pass the
\* duplicate check before either has written: an add that read a snapshot
\* without the task writes it and reports it as added when it resumes, whatever
\* the store holds by then.
C37_BothPassDuplicateCheck ==
  [][\A p \in Procs :
       (/\ Suspended(p, "add") /\ inflight'[p] = Idle
        /\ \A i \in 1..Len(inflight[p].call.arg.tasks) :
              SnapshotLacks(inflight[p], inflight[p].call.arg.tasks[i].task))
         => /\ op'.name = "add" /\ op'.arg = inflight[p].call.arg
            /\ op'.ret.count = Len(op'.arg.tasks)
            /\ \A i \in 1..Len(op'.arg.tasks) :
                  \E r \in Rows : /\ IsActiveRow(sheet', r)
                                  /\ sheet'[r].task = op'.arg.tasks[i].task]_vars

\* Both requests are suspended in an add of the same task, each with a
\* snapshot that does not hold it.
C37_Witness ==
  /\ \A p \in Procs : Suspended(p, "add") /\ SnapshotLacks(inflight[p], "a")
  /\ inflight["p1"].call = inflight["p2"].call
  /\ inflight["p1"].call.arg.tasks = <<Cand("a", "", "", "", "")>>

\* C38: removeDuplicates clears a row only if an active task in a lower row
\* has the same identity tuple, component by component: it never clears a done
\* task nor an active task whose tuple is unique, whatever the fields contain,
\* the underscore that joins the key included.
C38_OnlyTrueDuplicatesCleared ==
  [][op'.name = "reconcile" =>
       \A r \in ChangedRows :
          /\ sheet'[r] = BlankRow
          /\ IsActiveRow(sheet, r)
          /\ \E q \in Rows : /\ q < r
                             /\ IsActiveRow(sheet, q)
                             /\ IdentityTuple(sheet, q) = IdentityTuple(sheet, r)]_vars

\* C39: a complete or delete the language model selects with an empty name
\* modifies no task: the function reports not-found instead of matching the
\* first active task.
C39_EmptyNameChangesNothing ==
  [][(/\ op'.name = "message" /\ config.sheets /\ config.openai
      /\ op'.arg.ai.kind = "tool"
      /\ op'.arg.ai.tool.name \in {"complete_task", "delete_task"}
      /\ op'.arg.ai.tool.args.taskName = "")
       => /\ sheet' = Reconciled
          /\ lastAction' = lastAction
          /\ op'.ret.replies = <<TextReply(MsgNotFoundName, "")>>]_vars

\* C40: in the src/bot.js variant rows cleared by removeDuplicates are not read
\* back as tasks: with cleared rows between occupied rows a second consecutive
\* removeDuplicates returns 0 and clears nothing, and a listing never shows a
\* task with empty text.
C40_ClearedRowsAreNoTasks ==
  [][/\ (op.name = "reconcile" /\ op'.name = "reconcile")
          => (op'.ret.n = 0 /\ sheet' = sheet)
     /\ op'.name = "show" =>
          \A i \in 1..Len(op'.ret.bullets) : Trim(op'.ret.bullets[i]) # ""]_vars

=========================================================================
